---- MODULE Spec2Model ----
(***************************************************************************)
(* Piring Sehat backend: the Express request pipeline (src/index.js), the  *)
(* auth gate requireAuth (src/middleware/auth.js), the route handlers and  *)
(* the resource services, over a data store of six tables.                 *)
(*                                                                         *)
(* A request occupies a slot of `reqs` and advances one awaited call at a  *)
(* time, so that requests interleave exactly where the code awaits.        *)
(* JavaScript's undefined and null are both the empty tuple Null; a        *)
(* present value v is <<v>>.  Strings that the code inspects (the          *)
(* Authorization header) are sequences of characters.                      *)
(***************************************************************************)
EXTENDS Integers, Sequences, FiniteSets, TLC

VARIABLES
    users,          \* table users: rows [id, firebase_uid, role, email, username, daily_calorie_target]
    forums,         \* table forums: rows [id, user_id, title, content]
    forum_comments, \* table forum_comments: rows [id, forum_id, user_id, content, parent_comment_id]
    food_logs,      \* table food_logs: rows [id, user_id, date, food_name_custom, calories, food_id]
    testimonials,   \* table testimonials: rows [id, user_id, username, job, message]
    makanan,        \* table makanan (food catalog)
    seq,            \* the store's id sequences, one per table with a generated id
    faults,         \* whether store calls may return an error in this behaviour
    nwrites,        \* number of writes the store has applied
    reqs            \* the requests in flight, one per slot

vars == <<users, forums, forum_comments, food_logs, testimonials, makanan, seq, faults, nwrites, reqs>>

store == <<users, forums, forum_comments, food_logs, testimonials, makanan, seq>>

-----------------------------------------------------------------------------
(* Bounds of the model *)

\* writes the store applies in one behaviour of the sequential specification
MaxWrites == 1

\* writes the store applies in one behaviour of the concurrent specification
MaxConcWrites == 2

\* writes the store applies in one behaviour of the food-log specification
MaxLogWrites == 3

\* rows of makanan at the start of the catalog specification, at most
CatalogSize == 11

\* writes the store applies in one behaviour of the sync specification
MaxSyncWrites == 2

\* writes the store applies in one behaviour of the testimonial specification
MaxTestimonialWrites == 2

\* writes the store applies in one behaviour of the concurrent catalog
\* specification
MaxFoodWrites == 2

-----------------------------------------------------------------------------
(* JavaScript values *)

Null == <<>>

Some(v) == <<v>>

Val(o) == o[1]

\* !x for a string-valued x: undefined, null and '' are falsy
FalsyStr(o) == o = Null \/ Val(o) = ""

\* !x for a number-valued x: undefined, null and 0 are falsy
FalsyNum(o) == o = Null \/ Val(o) = 0

\* a field of a body, query or params object: undefined when absent
Get(obj, k) == IF k \in DOMAIN obj THEN obj[k] ELSE Null

\* String.prototype.startsWith on character sequences
StartsWith(s, p) == Len(s) >= Len(p) /\ SubSeq(s, 1, Len(p)) = p

\* String.prototype.slice(n): the characters from index n (0-based) on
Slice(s, n) == SubSeq(s, n + 1, Len(s))

\* Number(x) on the path segments the model sends
Number(s) ==
    CASE s = "1" -> 1
      [] s = "2" -> 2
      [] s = "3" -> 3
      [] s = "4" -> 4

\* the role column's default for a row inserted without one
DefaultRole == "user"

-----------------------------------------------------------------------------
(* The identity verifier and the credentials the model sends *)

BearerPrefix == <<"B", "e", "a", "r", "e", "r", " ">>

\* tokens: three the verifier accepts and one it rejects
Tokens == {<<"t", "1">>, <<"t", "2">>, <<"t", "3">>, <<"x">>}

\* adminAuth.verifyIdToken: the decoded token (its uid and a role claim the
\* identity provider put in it), or Null when it throws
VerifyIdToken(token) ==
    CASE token = <<"t", "1">> -> Some([uid |-> "u1", role |-> "admin"])
      [] token = <<"t", "2">> -> Some([uid |-> "u2", role |-> "user"])
      [] token = <<"t", "3">> -> Some([uid |-> "u3", role |-> "admin"])
      [] OTHER -> Null

\* values of req.headers.authorization: absent, '', a non-Bearer scheme,
\* 'Bearer ' with nothing after it, and 'Bearer <token>'
Headers ==
    {Null, Some(<<>>), Some(<<"B", "a", "s", "i", "c", " ", "t", "1">>), Some(BearerPrefix)}
    \cup {Some(BearerPrefix \o t) : t \in Tokens}

-----------------------------------------------------------------------------
(* Routes, as src/index.js mounts them *)

ForumRoutes ==
    {"GET /api/forums", "GET /api/forums/:id", "POST /api/forums",
     "PUT /api/forums/:id", "DELETE /api/forums/:id"}

CommentRoutes ==
    {"GET /api/forums/:forumId/comments", "POST /api/forums/:forumId/comments",
     "PUT /api/forums/comments/:id", "DELETE /api/forums/comments/:id"}

FoodLogRoutes ==
    {"GET /api/food-logs", "POST /api/food-logs", "DELETE /api/food-logs/:id",
     "GET /api/food-logs/summary/month", "GET /api/food-logs/summary/nutrition"}

UserRoutes ==
    {"GET /api/users/me", "GET /api/users/:id/daily-target", "PUT /api/users/:id/daily-target"}

TestimonialRoutes ==
    {"GET /api/testimonials", "GET /api/testimonials/user/:userId", "POST /api/testimonials"}

AuthRoutes == {"POST /api/auth/sync-user"}

FoodRoutes ==
    {"GET /api/foods/search", "GET /api/foods/first", "GET /api/foods/all", "POST /api/foods"}

\* paths no router defines: under one protected mount, under the two
\* '/api/forums' mounts, under the testimonials mount, and under no mount
UnmatchedRoutes ==
    {"GET /api/users", "GET /api/forums/1/2/3", "DELETE /api/testimonials", "GET /api/nothing"}

Routes ==
    ForumRoutes \cup CommentRoutes \cup FoodLogRoutes \cup UserRoutes
    \cup TestimonialRoutes \cup AuthRoutes \cup FoodRoutes \cup UnmatchedRoutes

\* the method of a route
IsGet(route) == route \in
    {"GET /api/forums", "GET /api/forums/:id", "GET /api/forums/:forumId/comments",
     "GET /api/food-logs", "GET /api/food-logs/summary/month",
     "GET /api/food-logs/summary/nutrition", "GET /api/users/me",
     "GET /api/users/:id/daily-target", "GET /api/testimonials",
     "GET /api/testimonials/user/:userId", "GET /api/foods/search", "GET /api/foods/first",
     "GET /api/foods/all", "GET /api/users", "GET /api/forums/1/2/3", "GET /api/nothing"}

\* Gates with the '/api/users' mount left without requireAuth
GatesUsersOpen(route) ==
    CASE route \in ForumRoutes \cup FoodLogRoutes -> 1
      [] route \in CommentRoutes \cup {"GET /api/forums/1/2/3"} -> 2
      [] route \in {"POST /api/testimonials", "DELETE /api/testimonials"} -> 1
      [] OTHER -> 0

\* how many times requireAuth runs before the route's handler: once per
\* protected mount the request passes through.  The comment routes match
\* nothing in forumsRouter and reach forumCommentsRouter through the second
\* '/api/forums' mount, behind a second requireAuth.
Gates(route) ==
    CASE route \in ForumRoutes \cup FoodLogRoutes \cup UserRoutes \cup {"GET /api/users"} -> 1
      [] route \in CommentRoutes \cup {"GET /api/forums/1/2/3"} -> 2
      [] route \in TestimonialRoutes \cup {"DELETE /api/testimonials"} ->
            IF IsGet(route) THEN 0 ELSE 1
      [] OTHER -> 0

\* routes whose handler issues a write to the store
Mutating(route) ==
    route \in {"POST /api/forums", "PUT /api/forums/:id", "DELETE /api/forums/:id",
               "POST /api/forums/:forumId/comments", "PUT /api/forums/comments/:id",
               "DELETE /api/forums/comments/:id", "POST /api/food-logs",
               "DELETE /api/food-logs/:id", "PUT /api/users/:id/daily-target",
               "POST /api/testimonials", "POST /api/auth/sync-user", "POST /api/foods"}

-----------------------------------------------------------------------------
(* Requests *)

\* the slots requests are served in
Slots == {1, 2}

Idle ==
    [pc |-> "idle", route |-> "", hdr |-> Null, token |-> Null,
     firebaseUser |-> Null, user |-> Null, gates |-> 0,
     params |-> <<>>, query |-> <<>>, body |-> <<>>, found |-> Null,
     status |-> 0, error |-> "", data |-> Null, err |-> Null, failed |-> FALSE,
     verifyCalls |-> 0, userReads |-> 0, handlerRuns |-> 0, writes |-> 0]

\* a slot that takes no request in this behaviour
Off == [Idle EXCEPT !.pc = "off"]

\* res.status(s).json({ error }) ends the request
Reject(q, s, e) == [q EXCEPT !.pc = "done", !.status = s, !.error = e]

\* res.status(s).json(d) / res.json(d) / res.status(204).send()
Respond(q, s, d) == [q EXCEPT !.pc = "done", !.status = s, !.data = d]

\* the message of an error object the store client returns
StoreError == "store error"

\* a store call of the request returned an error instead of rows
Failed(q) == [q EXCEPT !.failed = TRUE]

\* a store call returns an error instead of rows
StoreFails == IF faults THEN BOOLEAN ELSE {FALSE}

\* requests in flight whose handler may still write
Pending == Cardinality({r \in Slots : reqs[r].pc \notin {"idle", "off", "done"} /\ Mutating(reqs[r].route)})

\* a request for one of `routes` with one of `headers` arrives in a free
\* slot; it enters requireAuth when its route is behind it, else its handler
ArriveWith(r, routes, headers, budget) ==
    /\ reqs[r].pc = "idle"
    /\ \E route \in routes, hdr \in headers :
         /\ Mutating(route) => nwrites + Pending < budget
         /\ reqs' = [reqs EXCEPT ![r] =
                [Idle EXCEPT !.route = route, !.hdr = hdr,
                             !.pc = IF Gates(route) > 0 THEN "gate" ELSE "handler"]]
    /\ UNCHANGED <<store, faults, nwrites>>

\* a request arrives: any route, any header
Arrive(r) == ArriveWith(r, Routes, Headers, MaxWrites)

\* the concurrent specification: updating and deleting forums and comments,
\* as u1, u2 (admin) or u3
ArriveConc(r) ==
    ArriveWith(r, {"PUT /api/forums/:id", "DELETE /api/forums/:id",
                   "PUT /api/forums/comments/:id", "DELETE /api/forums/comments/:id"},
               {Some(BearerPrefix \o t) : t \in {<<"t", "1">>, <<"t", "2">>, <<"t", "3">>}},
               MaxConcWrites)

\* the food-log specification: reading, adding and deleting food logs, as u1
ArriveLogs(r) ==
    ArriveWith(r, {"GET /api/food-logs", "POST /api/food-logs", "DELETE /api/food-logs/:id"},
               {Some(BearerPrefix \o <<"t", "1">>)}, MaxLogWrites)

\* the sync specification: u1, and u3, who has no row yet, sync and read the
\* profile
ArriveSync(r) ==
    ArriveWith(r, {"POST /api/auth/sync-user", "GET /api/users/me"},
               {Some(BearerPrefix \o t) : t \in {<<"t", "1">>, <<"t", "3">>}},
               MaxSyncWrites)

\* the role specification: updating and deleting forums, as u1, u2 (admin)
\* or u3
ArriveRoles(r) ==
    ArriveWith(r, {"PUT /api/forums/:id", "DELETE /api/forums/:id"},
               {Some(BearerPrefix \o t) : t \in {<<"t", "1">>, <<"t", "2">>, <<"t", "3">>}},
               MaxWrites)

\* any route, under the credentials that take each way through requireAuth:
\* no header, a token the verifier rejects, a token of a user with a row, a
\* token of one without
ArriveLive(r) ==
    ArriveWith(r, Routes,
               {Null} \cup {Some(BearerPrefix \o t) : t \in {<<"x">>, <<"t", "1">>, <<"t", "3">>}},
               MaxWrites)

\* the routes that take the user they act on from the request: the food-log
\* routes and the daily-target routes
OwnerRoutes ==
    FoodLogRoutes \cup {"GET /api/users/:id/daily-target", "PUT /api/users/:id/daily-target"}

\* two clients, each with its own credential: the user of row 1, the admin
\* of row 2
ArriveOwner(r) ==
    ArriveWith(r, OwnerRoutes,
               {Some(BearerPrefix \o (IF r = 1 THEN <<"t", "1">> ELSE <<"t", "2">>))},
               MaxConcWrites)

\* the testimonial specification: the testimonial routes, as u1 or u2
ArriveTestimonials(r) ==
    ArriveWith(r, TestimonialRoutes,
               {Some(BearerPrefix \o t) : t \in {<<"t", "1">>, <<"t", "2">>}},
               MaxTestimonialWrites)

\* the catalog specification: the foods routes, which take no credential
ArriveFoods(r) == ArriveWith(r, FoodRoutes, {Null}, MaxWrites)

\* the response has been sent; the slot is free again
Finish(r) ==
    /\ reqs[r].pc = "done"
    /\ reqs' = [reqs EXCEPT ![r] = Idle]
    /\ UNCHANGED <<store, faults, nwrites>>

-----------------------------------------------------------------------------
(* The auth gate: requireAuth *)

\* const authHeader = req.headers.authorization || ''
AuthHeader(hdr) == IF hdr = Null \/ Val(hdr) = <<>> THEN <<>> ELSE Val(hdr)

\* const token = authHeader.startsWith('Bearer ') ? authHeader.slice(7) : null
TokenOf(hdr) ==
    IF StartsWith(AuthHeader(hdr), BearerPrefix)
    THEN Some(Slice(AuthHeader(hdr), 7))
    ELSE Null

\* MissingToken testing for null only
MissingTokenNullOnly(token) == token = Null

\* !token: null and '' are falsy
MissingToken(token) == token = Null \/ Val(token) = <<>>

\* the bodies of the gate's three rejections
MissingTokenError == "Unauthorized: missing token"

InvalidToken == "Unauthorized: invalid token"

UserNotFound == "User tidak ditemukan di database"

\* lines 29-34: the credential is extracted; without one the gate answers 401
\* before any call to the verifier
GateToken(r) ==
    /\ reqs[r].pc = "gate"
    /\ LET q == reqs[r]
           token == TokenOf(q.hdr)
       IN reqs' = [reqs EXCEPT ![r] =
               IF MissingToken(token)
               THEN Reject(q, 401, MissingTokenError)
               ELSE [q EXCEPT !.pc = "verify", !.token = token]]
    /\ UNCHANGED <<store, faults, nwrites>>

\* lines 36-38 and 60-63: verifyIdToken returns the decoded token or throws
GateVerify(r) ==
    /\ reqs[r].pc = "verify"
    /\ LET q == [reqs[r] EXCEPT !.verifyCalls = @ + 1]
           decoded == VerifyIdToken(Val(q.token))
       IN reqs' = [reqs EXCEPT ![r] =
               IF decoded = Null
               THEN Reject(q, 401, InvalidToken)
               ELSE [q EXCEPT !.pc = "lookup", !.firebaseUser = decoded]]
    /\ UNCHANGED <<store, faults, nwrites>>

\* SelectUserByUid without its filter on firebase_uid, taking the first row
SelectUserAny(uid) == IF users = {} THEN Null ELSE Some(CHOOSE u \in users : \A v \in users : u.id <= v.id)

\* SelectUserByUid answering for u2 from a copy of the row taken at startup
SelectUserByUidStale(uid) ==
    IF uid = "u2"
    THEN Some([id |-> 2, firebase_uid |-> "u2", role |-> "admin", email |-> Null,
               username |-> Null, daily_calorie_target |-> Null])
    ELSE LET rows == {u \in users : u.firebase_uid = uid}
         IN IF Cardinality(rows) = 1 THEN Some(CHOOSE u \in rows : TRUE) ELSE Null

\* .from('users').select('id, role').eq('firebase_uid', uid).single():
\* the row when exactly one matches, otherwise an error
SelectUserByUid(uid) ==
    LET rows == {u \in users : u.firebase_uid = uid}
    IN IF Cardinality(rows) = 1
       THEN Some(CHOOSE u \in rows : TRUE)
       ELSE Null

\* Principal taking the role from the token's claims
PrincipalFromClaims(decoded, data) ==
    [firebaseUid |-> decoded.uid, supabaseUserId |-> data.id, role |-> decoded.role]

\* req.user = { firebaseUid: decoded.uid, supabaseUserId: data.id, role: data.role }
Principal(decoded, data) ==
    [firebaseUid |-> decoded.uid, supabaseUserId |-> data.id, role |-> data.role]

\* GateLookup provisioning a users row for a verified uid that has none
GateLookupProvision(r) ==
    /\ reqs[r].pc = "lookup"
    /\ LET q == [reqs[r] EXCEPT !.userReads = @ + 1]
           decoded == Val(q.firebaseUser)
           data == SelectUserByUid(decoded.uid)
           created == [id |-> seq.users + 1, firebase_uid |-> decoded.uid, role |-> DefaultRole,
                       email |-> Null, username |-> Null, daily_calorie_target |-> Null]
           row == IF data = Null THEN created ELSE Val(data)
       IN /\ users' = IF data = Null /\ seq.users < 3 THEN users \cup {created} ELSE users
          /\ seq' = IF data = Null /\ seq.users < 3 THEN [seq EXCEPT !.users = @ + 1] ELSE seq
          /\ reqs' = [reqs EXCEPT ![r] =
                 [q EXCEPT !.user = Some(Principal(decoded, row)),
                           !.gates = @ + 1,
                           !.pc = IF q.gates + 1 < Gates(q.route) THEN "gate" ELSE "handler"]]
    /\ UNCHANGED <<forums, forum_comments, food_logs, testimonials, makanan, faults, nwrites>>

\* lines 41-59: the directory lookup; on a row the Principal is attached and
\* next() runs the following stage
GateLookup(r) ==
    /\ reqs[r].pc = "lookup"
    /\ \E fail \in StoreFails :
         LET q == [reqs[r] EXCEPT !.userReads = @ + 1, !.failed = @ \/ fail]
             decoded == Val(q.firebaseUser)
             data == IF fail THEN Null ELSE SelectUserByUid(decoded.uid)
         IN reqs' = [reqs EXCEPT ![r] =
                 IF data = Null
                 THEN Reject(q, 401, UserNotFound)
                 ELSE [q EXCEPT !.user = Some(Principal(decoded, Val(data))),
                                !.gates = @ + 1,
                                !.pc = IF q.gates + 1 < Gates(q.route) THEN "gate" ELSE "handler"]]
    /\ UNCHANGED <<store, faults, nwrites>>

-----------------------------------------------------------------------------
(* Inputs the model sends to the forum and comment routes *)

\* path segments used as ids
PathIds == {"1", "2", "3"}

\* a required text field: absent, '' or a text
OptTexts == {Null, Some(""), Some("a")}

\* a replacement text: absent or a text
NewTexts == {Null, Some("b")}

\* bodies of POST /api/forums; user_id is a field the handler never reads
ForumPostBodies == [title : OptTexts, content : OptTexts, user_id : {Null, Some(2)}]

ForumPutBodies == [title : NewTexts, content : NewTexts]

CommentPostBodies == [content : OptTexts, parentCommentId : {Null, Some(1)}]

CommentPutBodies == [content : {Null, Some(""), Some("b")}]

-----------------------------------------------------------------------------
(* forumsService *)

\* maybeSingle(): Null when no row matches, the row when one does
MaybeSingle(rows) == IF rows = {} THEN Null ELSE Some(CHOOSE x \in rows : TRUE)

\* getForumOwnerAndRole: select id, user_id from forums where id = $1
getForumOwnerAndRole(id) ==
    MaybeSingle({[id |-> f.id, user_id |-> f.user_id] : f \in {g \in forums : g.id = id}})

\* getForumById: select * from view_forums where id = $1
getForumById(id) == MaybeSingle({f \in forums : f.id = id})

\* Authorized without the admin bypass
AuthorizedOwnerOnly(owner, requesterId, requesterRole) == owner = requesterId

\* the ownership/role decision of updateForum, deleteForum, updateComment
\* and deleteComment: isOwner || isAdmin
Authorized(owner, requesterId, requesterRole) ==
    LET isOwner == owner = requesterId
        isAdmin == requesterRole = "admin"
    IN isOwner \/ isAdmin

\* ServiceCheck deciding authorization before existence
ServiceCheckAuthFirst(found, requesterId, requesterRole) ==
    IF requesterRole # "admin" /\ (found = Null \/ Val(found).user_id # requesterId) THEN 403
    ELSE IF found = Null THEN 404
    ELSE 0

\* the checks updateForum, deleteForum, updateComment and deleteComment make
\* on the row their owner read returned, in the order they make them:
\* 404 when there is none, 403 when the requester may not touch it, else 0
ServiceCheck(found, requesterId, requesterRole) ==
    IF found = Null THEN 404
    ELSE IF ~Authorized(Val(found).user_id, requesterId, requesterRole) THEN 403
    ELSE 0

\* the row createForum inserts: { user_id: userId, title, content }
NewForum(id, userId, title, content) ==
    [id |-> id, user_id |-> userId, title |-> title, content |-> content]

\* updateForum writing '' into the fields it was not given
UpdatedForumBlank(f, title, content) ==
    [f EXCEPT !.title = IF title # Null THEN Val(title) ELSE "",
              !.content = IF content # Null THEN Val(content) ELSE ""]

\* the payload of updateForum applied to a row: only the fields that are
\* not null are set
UpdatedForum(f, title, content) ==
    [f EXCEPT !.title = IF title # Null THEN Val(title) ELSE @,
              !.content = IF content # Null THEN Val(content) ELSE @]

-----------------------------------------------------------------------------
(* routes/forums.js *)

\* RequesterId preferring a user_id sent in the body
RequesterIdFromBody(q) ==
    IF Get(q.body, "user_id") # Null THEN Get(q.body, "user_id")
    ELSE IF q.user = Null THEN Null ELSE Some(Val(q.user).supabaseUserId)

\* const userId = req.user?.supabaseUserId
RequesterId(q) == IF q.user = Null THEN Null ELSE Some(Val(q.user).supabaseUserId)

\* RequesterRole taking the role claim of the decoded token
RequesterRoleFromClaims(q) ==
    IF q.firebaseUser = Null THEN Null ELSE Some(Val(q.firebaseUser).role)

\* const requesterRole = req.user?.role
RequesterRole(q) == IF q.user = Null THEN Null ELSE Some(Val(q.user).role)

\* GET /api/forums
ForumsGetAll(r) ==
    /\ reqs[r].pc = "handler"
    /\ reqs[r].route = "GET /api/forums"
    /\ \E fail \in StoreFails :
         LET q == [reqs[r] EXCEPT !.handlerRuns = @ + 1]
         IN reqs' = [reqs EXCEPT ![r] =
                 IF fail THEN Reject(Failed(q), 500, "Gagal mengambil data forums")
                 ELSE Respond(q, 200, Some(forums))]
    /\ UNCHANGED <<store, faults, nwrites>>

\* GET /api/forums/:id
ForumsGetOne(r) ==
    /\ reqs[r].pc = "handler"
    /\ reqs[r].route = "GET /api/forums/:id"
    /\ \E id \in PathIds, fail \in StoreFails :
         LET q == [reqs[r] EXCEPT !.handlerRuns = @ + 1, !.params = [id |-> Some(id)]]
             forum == getForumById(Number(id))
         IN reqs' = [reqs EXCEPT ![r] =
                 IF fail THEN Reject(Failed(q), 500, "Gagal mengambil detail forum")
                 ELSE IF forum = Null THEN Reject(q, 404, "Forum tidak ditemukan")
                 ELSE Respond(q, 200, forum)]
    /\ UNCHANGED <<store, faults, nwrites>>

\* POST /api/forums, with createForum
ForumsPost(r) ==
    /\ reqs[r].pc = "handler"
    /\ reqs[r].route = "POST /api/forums"
    /\ \E body \in ForumPostBodies, fail \in StoreFails :
         LET q == [reqs[r] EXCEPT !.handlerRuns = @ + 1, !.body = body]
             userId == RequesterId(q)
             title == Get(body, "title")
             content == Get(body, "content")
             created == NewForum(seq.forums + 1, Val(userId), Val(title), Val(content))
         IN IF FalsyNum(userId)
            THEN /\ reqs' = [reqs EXCEPT ![r] = Reject(q, 401, "User tidak terautentikasi")]
                 /\ UNCHANGED <<store, nwrites>>
            ELSE IF FalsyStr(title) \/ FalsyStr(content)
            THEN /\ reqs' = [reqs EXCEPT ![r] = Reject(q, 400, "title dan content wajib diisi")]
                 /\ UNCHANGED <<store, nwrites>>
            ELSE IF fail
            THEN /\ reqs' = [reqs EXCEPT ![r] = Reject(Failed(q), 500, "Gagal membuat forum baru")]
                 /\ UNCHANGED <<store, nwrites>>
            ELSE /\ forums' = forums \cup {created}
                 /\ seq' = [seq EXCEPT !.forums = @ + 1]
                 /\ nwrites' = nwrites + 1
                 /\ reqs' = [reqs EXCEPT ![r] =
                        Respond([q EXCEPT !.writes = @ + 1], 201, Some(created))]
                 /\ UNCHANGED <<users, forum_comments, food_logs, testimonials, makanan>>
    /\ UNCHANGED faults

\* PUT /api/forums/:id up to the owner read of updateForum: 400/401 at the
\* route, 404 and 403 from the service, otherwise the update is issued
ForumsPut(r) ==
    /\ reqs[r].pc = "handler"
    /\ reqs[r].route = "PUT /api/forums/:id"
    /\ \E id \in PathIds, body \in ForumPutBodies, fail \in StoreFails :
         LET q == [reqs[r] EXCEPT !.handlerRuns = @ + 1,
                                  !.params = [id |-> Some(id)], !.body = body]
             requesterId == RequesterId(q)
             requesterRole == RequesterRole(q)
             forum == getForumOwnerAndRole(Number(id))
             check == ServiceCheck(forum, Val(requesterId), Val(requesterRole))
         IN reqs' = [reqs EXCEPT ![r] =
                 IF FalsyNum(requesterId) THEN Reject(q, 401, "User tidak terautentikasi")
                 ELSE IF fail THEN Reject(Failed(q), 500, StoreError)
                 ELSE IF check = 404 THEN Reject(q, 404, "Forum tidak ditemukan")
                 ELSE IF check = 403
                 THEN Reject([q EXCEPT !.found = forum], 403,
                             "Tidak memiliki izin untuk mengedit forum ini")
                 ELSE [q EXCEPT !.found = forum, !.pc = "write"]]
    /\ UNCHANGED <<store, faults, nwrites>>

\* the update of updateForum as an upsert: a forum that is gone is written
\* back with the owner read earlier
ForumsPutWriteUpsert(r) ==
    /\ reqs[r].pc = "write"
    /\ reqs[r].route = "PUT /api/forums/:id"
    /\ LET q == reqs[r]
           id == Number(Val(q.params.id))
           rows == {f \in forums : f.id = id}
           updated == IF rows = {} THEN {NewForum(id, Val(q.found).user_id, "b", "b")}
                      ELSE {UpdatedForum(f, Get(q.body, "title"), Get(q.body, "content")) : f \in rows}
       IN /\ forums' = (forums \ rows) \cup updated
          /\ nwrites' = nwrites + 1
          /\ reqs' = [reqs EXCEPT ![r] =
                 Respond([q EXCEPT !.writes = @ + 1], 200, MaybeSingle(updated))]
          /\ UNCHANGED <<users, forum_comments, food_logs, testimonials, makanan, seq>>
    /\ UNCHANGED faults

\* the update of updateForum: .update(payload).eq('id', forumId).select('*').single()
ForumsPutWrite(r) ==
    /\ reqs[r].pc = "write"
    /\ reqs[r].route = "PUT /api/forums/:id"
    /\ \E fail \in StoreFails :
         LET q == reqs[r]
             id == Number(Val(q.params.id))
             rows == {f \in forums : f.id = id}
             updated == {UpdatedForum(f, Get(q.body, "title"), Get(q.body, "content")) : f \in rows}
         IN IF fail
            THEN /\ reqs' = [reqs EXCEPT ![r] = Reject(Failed(q), 500, StoreError)]
                 /\ UNCHANGED <<store, nwrites>>
            ELSE /\ forums' = (forums \ rows) \cup updated
                 /\ nwrites' = nwrites + 1
                 /\ reqs' = [reqs EXCEPT ![r] =
                        IF Cardinality(updated) = 1
                        THEN Respond([q EXCEPT !.writes = @ + 1], 200, MaybeSingle(updated))
                        ELSE Reject(Failed([q EXCEPT !.writes = @ + 1]), 500, StoreError)]
                 /\ UNCHANGED <<users, forum_comments, food_logs, testimonials, makanan, seq>>
    /\ UNCHANGED faults

\* DELETE /api/forums/:id issuing the delete before the owner read
ForumsDeleteEager(r) ==
    /\ reqs[r].pc = "handler"
    /\ reqs[r].route = "DELETE /api/forums/:id"
    /\ \E id \in PathIds :
         LET q == [reqs[r] EXCEPT !.handlerRuns = @ + 1, !.params = [id |-> Some(id)],
                                  !.writes = @ + 1]
             forum == getForumOwnerAndRole(Number(id))
             check == ServiceCheck(forum, Val(RequesterId(q)), Val(RequesterRole(q)))
         IN /\ forums' = {f \in forums : f.id # Number(id)}
            /\ reqs' = [reqs EXCEPT ![r] =
                   IF check = 404 THEN Reject(q, 404, "Forum tidak ditemukan")
                   ELSE IF check = 403
                   THEN Reject([q EXCEPT !.found = forum], 403,
                               "Tidak memiliki izin untuk menghapus forum ini")
                   ELSE Respond([q EXCEPT !.found = forum], 204, Null)]
    /\ nwrites' = nwrites + 1
    /\ UNCHANGED <<users, forum_comments, food_logs, testimonials, makanan, seq, faults>>

\* DELETE /api/forums/:id up to the owner read of deleteForum
ForumsDelete(r) ==
    /\ reqs[r].pc = "handler"
    /\ reqs[r].route = "DELETE /api/forums/:id"
    /\ \E id \in PathIds, fail \in StoreFails :
         LET q == [reqs[r] EXCEPT !.handlerRuns = @ + 1, !.params = [id |-> Some(id)]]
             requesterId == RequesterId(q)
             requesterRole == RequesterRole(q)
             forum == getForumOwnerAndRole(Number(id))
             check == ServiceCheck(forum, Val(requesterId), Val(requesterRole))
         IN reqs' = [reqs EXCEPT ![r] =
                 IF FalsyNum(requesterId) THEN Reject(q, 401, "User tidak terautentikasi")
                 ELSE IF fail THEN Reject(Failed(q), 500, StoreError)
                 ELSE IF check = 404 THEN Reject(q, 404, "Forum tidak ditemukan")
                 ELSE IF check = 403
                 THEN Reject([q EXCEPT !.found = forum], 403,
                             "Tidak memiliki izin untuk menghapus forum ini")
                 ELSE [q EXCEPT !.found = forum, !.pc = "write"]]
    /\ UNCHANGED <<store, faults, nwrites>>

\* the delete of deleteForum: .delete().eq('id', forumId)
ForumsDeleteWrite(r) ==
    /\ reqs[r].pc = "write"
    /\ reqs[r].route = "DELETE /api/forums/:id"
    /\ \E fail \in StoreFails :
         LET q == reqs[r]
             id == Number(Val(q.params.id))
         IN IF fail
            THEN /\ reqs' = [reqs EXCEPT ![r] = Reject(Failed(q), 500, StoreError)]
                 /\ UNCHANGED <<store, nwrites>>
            ELSE /\ forums' = {f \in forums : f.id # id}
                 /\ nwrites' = nwrites + 1
                 /\ reqs' = [reqs EXCEPT ![r] = Respond([q EXCEPT !.writes = @ + 1], 204, Null)]
                 /\ UNCHANGED <<users, forum_comments, food_logs, testimonials, makanan, seq>>
    /\ UNCHANGED faults

-----------------------------------------------------------------------------
(* forumCommentsService *)

\* getCommentWithOwner: select id, user_id from forum_comments where id = $1
getCommentWithOwner(commentId) ==
    MaybeSingle({[id |-> c.id, user_id |-> c.user_id] : c \in {d \in forum_comments : d.id = commentId}})

\* getCommentsByForumId: select * from view_forum_comments where forum_id = $1
getCommentsByForumId(forumId) == {c \in forum_comments : c.forum_id = forumId}

\* the row createComment inserts
NewComment(id, forumId, userId, content, parentCommentId) ==
    [id |-> id, forum_id |-> forumId, user_id |-> userId, content |-> content,
     parent_comment_id |-> parentCommentId]

\* .update({ content }) applied to a row
UpdatedComment(c, content) == [c EXCEPT !.content = content]

-----------------------------------------------------------------------------
(* routes/forumComments.js *)

\* GET /api/forums/:forumId/comments
CommentsGet(r) ==
    /\ reqs[r].pc = "handler"
    /\ reqs[r].route = "GET /api/forums/:forumId/comments"
    /\ \E forumId \in PathIds, fail \in StoreFails :
         LET q == [reqs[r] EXCEPT !.handlerRuns = @ + 1, !.params = [forumId |-> Some(forumId)]]
         IN reqs' = [reqs EXCEPT ![r] =
                 IF fail THEN Reject(Failed(q), 500, "Gagal mengambil komentar forum")
                 ELSE Respond(q, 200, Some(getCommentsByForumId(Number(forumId))))]
    /\ UNCHANGED <<store, faults, nwrites>>

\* POST /api/forums/:forumId/comments, with createComment
CommentsPost(r) ==
    /\ reqs[r].pc = "handler"
    /\ reqs[r].route = "POST /api/forums/:forumId/comments"
    /\ \E forumId \in PathIds, body \in CommentPostBodies, fail \in StoreFails :
         LET q == [reqs[r] EXCEPT !.handlerRuns = @ + 1,
                                  !.params = [forumId |-> Some(forumId)], !.body = body]
             userId == RequesterId(q)
             content == Get(body, "content")
             created == NewComment(seq.forum_comments + 1, Number(forumId), Val(userId),
                                   Val(content), Get(body, "parentCommentId"))
         IN IF FalsyNum(userId)
            THEN /\ reqs' = [reqs EXCEPT ![r] = Reject(q, 401, "User tidak terautentikasi")]
                 /\ UNCHANGED <<store, nwrites>>
            ELSE IF FalsyStr(content)
            THEN /\ reqs' = [reqs EXCEPT ![r] = Reject(q, 400, "content wajib diisi")]
                 /\ UNCHANGED <<store, nwrites>>
            ELSE IF fail
            THEN /\ reqs' = [reqs EXCEPT ![r] = Reject(Failed(q), 500, "Gagal menambahkan komentar")]
                 /\ UNCHANGED <<store, nwrites>>
            ELSE /\ forum_comments' = forum_comments \cup {created}
                 /\ seq' = [seq EXCEPT !.forum_comments = @ + 1]
                 /\ nwrites' = nwrites + 1
                 /\ reqs' = [reqs EXCEPT ![r] =
                        Respond([q EXCEPT !.writes = @ + 1], 201, Some(created))]
                 /\ UNCHANGED <<users, forums, food_logs, testimonials, makanan>>
    /\ UNCHANGED faults

\* PUT /api/forums/comments/:id answering 400 for an empty content without
\* returning: the handler goes on to updateComment
CommentsPutNoReturn(r) ==
    /\ reqs[r].pc = "handler"
    /\ reqs[r].route = "PUT /api/forums/comments/:id"
    /\ \E id \in PathIds :
         LET q == [reqs[r] EXCEPT !.handlerRuns = @ + 1, !.params = [id |-> Some(id)],
                                  !.body = [content |-> Some("")]]
         IN reqs' = [reqs EXCEPT ![r] =
                 [Reject(q, 400, "content wajib diisi") EXCEPT !.pc = "write"]]
    /\ UNCHANGED <<store, faults, nwrites>>

\* PUT /api/forums/comments/:id up to the owner read of updateComment
CommentsPut(r) ==
    /\ reqs[r].pc = "handler"
    /\ reqs[r].route = "PUT /api/forums/comments/:id"
    /\ \E id \in PathIds, body \in CommentPutBodies, fail \in StoreFails :
         LET q == [reqs[r] EXCEPT !.handlerRuns = @ + 1,
                                  !.params = [id |-> Some(id)], !.body = body]
             requesterId == RequesterId(q)
             requesterRole == RequesterRole(q)
             comment == getCommentWithOwner(Number(id))
             check == ServiceCheck(comment, Val(requesterId), Val(requesterRole))
         IN reqs' = [reqs EXCEPT ![r] =
                 IF FalsyNum(requesterId) THEN Reject(q, 401, "User tidak terautentikasi")
                 ELSE IF FalsyStr(Get(body, "content")) THEN Reject(q, 400, "content wajib diisi")
                 ELSE IF fail THEN Reject(Failed(q), 500, StoreError)
                 ELSE IF check = 404 THEN Reject(q, 404, "Komentar tidak ditemukan")
                 ELSE IF check = 403
                 THEN Reject([q EXCEPT !.found = comment], 403,
                             "Tidak memiliki izin untuk mengedit komentar ini")
                 ELSE [q EXCEPT !.found = comment, !.pc = "write"]]
    /\ UNCHANGED <<store, faults, nwrites>>

\* the update of updateComment: .update({ content }).eq('id', commentId).select('*').single()
CommentsPutWrite(r) ==
    /\ reqs[r].pc = "write"
    /\ reqs[r].route = "PUT /api/forums/comments/:id"
    /\ \E fail \in StoreFails :
         LET q == reqs[r]
             id == Number(Val(q.params.id))
             rows == {c \in forum_comments : c.id = id}
             updated == {UpdatedComment(c, Val(Get(q.body, "content"))) : c \in rows}
         IN IF fail
            THEN /\ reqs' = [reqs EXCEPT ![r] = Reject(Failed(q), 500, StoreError)]
                 /\ UNCHANGED <<store, nwrites>>
            ELSE /\ forum_comments' = (forum_comments \ rows) \cup updated
                 /\ nwrites' = nwrites + 1
                 /\ reqs' = [reqs EXCEPT ![r] =
                        IF Cardinality(updated) = 1
                        THEN Respond([q EXCEPT !.writes = @ + 1], 200, MaybeSingle(updated))
                        ELSE Reject(Failed([q EXCEPT !.writes = @ + 1]), 500, StoreError)]
                 /\ UNCHANGED <<users, forums, food_logs, testimonials, makanan, seq>>
    /\ UNCHANGED faults

\* DELETE /api/forums/comments/:id up to the owner read of deleteComment
CommentsDelete(r) ==
    /\ reqs[r].pc = "handler"
    /\ reqs[r].route = "DELETE /api/forums/comments/:id"
    /\ \E id \in PathIds, fail \in StoreFails :
         LET q == [reqs[r] EXCEPT !.handlerRuns = @ + 1, !.params = [id |-> Some(id)]]
             requesterId == RequesterId(q)
             requesterRole == RequesterRole(q)
             comment == getCommentWithOwner(Number(id))
             check == ServiceCheck(comment, Val(requesterId), Val(requesterRole))
         IN reqs' = [reqs EXCEPT ![r] =
                 IF FalsyNum(requesterId) THEN Reject(q, 401, "User tidak terautentikasi")
                 ELSE IF fail THEN Reject(Failed(q), 500, StoreError)
                 ELSE IF check = 404 THEN Reject(q, 404, "Komentar tidak ditemukan")
                 ELSE IF check = 403
                 THEN Reject([q EXCEPT !.found = comment], 403,
                             "Tidak memiliki izin untuk menghapus komentar ini")
                 ELSE [q EXCEPT !.found = comment, !.pc = "write"]]
    /\ UNCHANGED <<store, faults, nwrites>>

\* the delete of deleteComment: .delete().eq('id', commentId)
CommentsDeleteWrite(r) ==
    /\ reqs[r].pc = "write"
    /\ reqs[r].route = "DELETE /api/forums/comments/:id"
    /\ \E fail \in StoreFails :
         LET q == reqs[r]
             id == Number(Val(q.params.id))
         IN IF fail
            THEN /\ reqs' = [reqs EXCEPT ![r] = Reject(Failed(q), 500, StoreError)]
                 /\ UNCHANGED <<store, nwrites>>
            ELSE /\ forum_comments' = {c \in forum_comments : c.id # id}
                 /\ nwrites' = nwrites + 1
                 /\ reqs' = [reqs EXCEPT ![r] = Respond([q EXCEPT !.writes = @ + 1], 204, Null)]
                 /\ UNCHANGED <<users, forums, food_logs, testimonials, makanan, seq>>
    /\ UNCHANGED faults

-----------------------------------------------------------------------------
(* foodLogsService and routes/foodLogs.js *)

\* !x for an input that is absent or a non-empty, non-zero value
Absent(o) == o = Null

RECURSIVE Sum(_, _)
\* the sum of field k over a set of rows
Sum(rows, k) ==
    IF rows = {} THEN 0
    ELSE LET x == CHOOSE y \in rows : TRUE
         IN x[k] + Sum(rows \ {x}, k)

\* getFoodLogsByDate: select * from food_logs where user_id = $1 and date = $2
getFoodLogsByDate(userId, date) ==
    {l \in food_logs : l.user_id = Number(userId) /\ l.date = date}

\* the row addFoodLog inserts
NewFoodLog(id, userId, date, foodName, calories, foodId) ==
    [id |-> id, user_id |-> userId, date |-> date, food_name_custom |-> foodName,
     calories |-> calories, food_id |-> foodId]

\* getTotalCaloriesInRange: the calories of the user's rows with
\* startDate <= date <= endDate, summed
getTotalCaloriesInRange(userId, startDate, endDate) ==
    Sum({l \in food_logs : l.user_id = Number(userId) /\ l.date >= startDate /\ l.date <= endDate},
        "calories")

\* SUM skips a null nutrient
Coalesce(o) == IF o = Null THEN 0 ELSE Val(o)

\* the store function get_daily_nutrition: the nutrients of the catalog
\* rows the user's logs of that date refer to, summed
getDailyNutrition(userId, date) ==
    LET logs == {l \in getFoodLogsByDate(userId, date) : l.food_id # Null}
        foods == {<<l.id, m>> : l \in logs, m \in makanan}
        joined == {[id |-> p[1], proteins |-> Coalesce(p[2].proteins),
                    carbohydrate |-> Coalesce(p[2].carbohydrate), fat |-> Coalesce(p[2].fat)] :
                   p \in {x \in foods : \E l \in logs : l.id = x[1] /\ Val(l.food_id) = x[2].id}}
    IN [protein |-> Sum(joined, "proteins"), carbs |-> Sum(joined, "carbohydrate"),
        fat |-> Sum(joined, "fat")]

FoodLogQueries == [userId : {Null, Some("1"), Some("2")}, date : {Null, Some(1)}]

RangeQueries == [userId : {Null, Some("1")}, startDate : {Null, Some(1)}, endDate : {Null, Some(2)}]

FoodLogBody == [userId |-> Some(1), date |-> Some(1), foodName |-> Some("Rice"),
                calories |-> Some(200), foodId |-> Null]

\* bodies of POST /api/food-logs: complete, with calories 0, with a foodId
\* that is 0 or a catalog id, and with one required field missing
FoodLogPostBodies ==
    {FoodLogBody, [FoodLogBody EXCEPT !.calories = Some(0)],
     [FoodLogBody EXCEPT !.foodId = Some(0)], [FoodLogBody EXCEPT !.foodId = Some(1)],
     [FoodLogBody EXCEPT !.userId = Some(2)]}
    \cup {[FoodLogBody EXCEPT ![k] = Null] : k \in {"userId", "date", "foodName", "calories"}}

\* GET /api/food-logs answering 403 for the logs of another user
FoodLogsGetOwn(r) ==
    /\ reqs[r].pc = "handler"
    /\ reqs[r].route = "GET /api/food-logs"
    /\ \E query \in FoodLogQueries, fail \in StoreFails :
         LET q == [reqs[r] EXCEPT !.handlerRuns = @ + 1, !.query = query]
         IN reqs' = [reqs EXCEPT ![r] =
                 IF Absent(query.userId) \/ Absent(query.date)
                 THEN Reject(q, 400, "userId dan date wajib diisi")
                 ELSE IF Some(Number(Val(query.userId))) # RequesterId(q)
                 THEN Reject(q, 403, "Forbidden")
                 ELSE IF fail THEN Reject(Failed(q), 500, "Gagal mengambil data food_logs")
                 ELSE Respond(q, 200, Some(getFoodLogsByDate(Val(query.userId), Val(query.date))))]
    /\ UNCHANGED <<store, faults, nwrites>>

\* GET /api/food-logs
FoodLogsGet(r) ==
    /\ reqs[r].pc = "handler"
    /\ reqs[r].route = "GET /api/food-logs"
    /\ \E query \in FoodLogQueries, fail \in StoreFails :
         LET q == [reqs[r] EXCEPT !.handlerRuns = @ + 1, !.query = query]
         IN reqs' = [reqs EXCEPT ![r] =
                 IF Absent(query.userId) \/ Absent(query.date)
                 THEN Reject(q, 400, "userId dan date wajib diisi")
                 ELSE IF fail THEN Reject(Failed(q), 500, "Gagal mengambil data food_logs")
                 ELSE Respond(q, 200, Some(getFoodLogsByDate(Val(query.userId), Val(query.date))))]
    /\ UNCHANGED <<store, faults, nwrites>>

\* !calories, which takes 0 for missing
NullishFalsy(o) == o = Null \/ Val(o) = 0

\* calories == null
Nullish(o) == o = Null

\* POST /api/food-logs calling addFoodLog before it validates the body
FoodLogsPostLate(r) ==
    /\ reqs[r].pc = "handler"
    /\ reqs[r].route = "POST /api/food-logs"
    /\ \E body \in FoodLogPostBodies, fail \in StoreFails :
         LET q == [reqs[r] EXCEPT !.handlerRuns = @ + 1, !.body = body]
         IN reqs' = [reqs EXCEPT ![r] =
                IF fail THEN Reject(Failed(q), 500, "Gagal menambah food_log")
                ELSE Reject(q, 400, "userId, date, foodName, dan calories wajib diisi")]
    /\ UNCHANGED <<store, faults, nwrites>>

\* POST /api/food-logs, with addFoodLog
FoodLogsPost(r) ==
    /\ reqs[r].pc = "handler"
    /\ reqs[r].route = "POST /api/food-logs"
    /\ \E body \in FoodLogPostBodies, fail \in StoreFails :
         LET q == [reqs[r] EXCEPT !.handlerRuns = @ + 1, !.body = body]
             foodId == IF FalsyNum(body.foodId) THEN Null ELSE body.foodId
             created == NewFoodLog(seq.food_logs + 1, Val(body.userId), Val(body.date),
                                   Val(body.foodName), Val(body.calories), foodId)
         IN IF FalsyNum(body.userId) \/ Absent(body.date) \/ FalsyStr(body.foodName)
               \/ Nullish(body.calories)
            THEN /\ reqs' = [reqs EXCEPT ![r] =
                        Reject(q, 400, "userId, date, foodName, dan calories wajib diisi")]
                 /\ UNCHANGED <<store, nwrites>>
            ELSE IF fail
            THEN /\ reqs' = [reqs EXCEPT ![r] = Reject(Failed(q), 500, "Gagal menambah food_log")]
                 /\ UNCHANGED <<store, nwrites>>
            ELSE /\ food_logs' = food_logs \cup {created}
                 /\ seq' = [seq EXCEPT !.food_logs = @ + 1]
                 /\ nwrites' = nwrites + 1
                 /\ reqs' = [reqs EXCEPT ![r] =
                        Respond([q EXCEPT !.writes = @ + 1], 201, Some(created))]
                 /\ UNCHANGED <<users, forums, forum_comments, testimonials, makanan>>
    /\ UNCHANGED faults

\* DELETE /api/food-logs/:id deleting every row up to that id
FoodLogsDeleteUpTo(r) ==
    /\ reqs[r].pc = "handler"
    /\ reqs[r].route = "DELETE /api/food-logs/:id"
    /\ \E id \in PathIds :
         LET q == [reqs[r] EXCEPT !.handlerRuns = @ + 1, !.params = [id |-> Some(id)]]
         IN /\ food_logs' = {l \in food_logs : l.id > Number(id)}
            /\ nwrites' = nwrites + 1
            /\ reqs' = [reqs EXCEPT ![r] = Respond([q EXCEPT !.writes = @ + 1], 204, Null)]
            /\ UNCHANGED <<users, forums, forum_comments, testimonials, makanan, seq>>
    /\ UNCHANGED faults

\* DELETE /api/food-logs/:id, with deleteFoodLog
FoodLogsDelete(r) ==
    /\ reqs[r].pc = "handler"
    /\ reqs[r].route = "DELETE /api/food-logs/:id"
    /\ \E id \in PathIds, fail \in StoreFails :
         LET q == [reqs[r] EXCEPT !.handlerRuns = @ + 1, !.params = [id |-> Some(id)]]
         IN IF fail
            THEN /\ reqs' = [reqs EXCEPT ![r] = Reject(Failed(q), 500, "Gagal menghapus food_log")]
                 /\ UNCHANGED <<store, nwrites>>
            ELSE /\ food_logs' = {l \in food_logs : l.id # Number(id)}
                 /\ nwrites' = nwrites + 1
                 /\ reqs' = [reqs EXCEPT ![r] = Respond([q EXCEPT !.writes = @ + 1], 204, Null)]
                 /\ UNCHANGED <<users, forums, forum_comments, testimonials, makanan, seq>>
    /\ UNCHANGED faults

\* GET /api/food-logs/summary/month
FoodLogsMonth(r) ==
    /\ reqs[r].pc = "handler"
    /\ reqs[r].route = "GET /api/food-logs/summary/month"
    /\ \E query \in RangeQueries, fail \in StoreFails :
         LET q == [reqs[r] EXCEPT !.handlerRuns = @ + 1, !.query = query]
         IN reqs' = [reqs EXCEPT ![r] =
                 IF Absent(query.userId) \/ Absent(query.startDate) \/ Absent(query.endDate)
                 THEN Reject(q, 400, "userId, startDate, dan endDate wajib diisi")
                 ELSE IF fail THEN Reject(Failed(q), 500, "Gagal mengambil total kalori bulanan")
                 ELSE Respond(q, 200, Some(getTotalCaloriesInRange(
                          Val(query.userId), Val(query.startDate), Val(query.endDate))))]
    /\ UNCHANGED <<store, faults, nwrites>>

\* GET /api/food-logs/summary/nutrition, with getDailyNutritionSummary, which
\* answers zeros when the store call returns an error
FoodLogsNutrition(r) ==
    /\ reqs[r].pc = "handler"
    /\ reqs[r].route = "GET /api/food-logs/summary/nutrition"
    /\ \E query \in FoodLogQueries, fail \in StoreFails :
         LET q == [reqs[r] EXCEPT !.handlerRuns = @ + 1, !.query = query]
         IN reqs' = [reqs EXCEPT ![r] =
                 IF Absent(query.userId) \/ Absent(query.date)
                 THEN Reject(q, 400, "userId dan date wajib diisi")
                 ELSE IF fail THEN Respond(Failed(q), 200, Some([protein |-> 0, carbs |-> 0, fat |-> 0]))
                 ELSE Respond(q, 200, Some(getDailyNutrition(Val(query.userId), Val(query.date))))]
    /\ UNCHANGED <<store, faults, nwrites>>

-----------------------------------------------------------------------------
(* usersService, routes/users.js and routes/auth.js *)

\* getUserProfileById: select id, email, username, role from users where id = $1
getUserProfileById(userId) ==
    MaybeSingle({[id |-> u.id, email |-> u.email, username |-> u.username, role |-> u.role] :
                 u \in {v \in users : v.id = userId}})

\* getUserDailyCalorieTarget: data?.daily_calorie_target ?? null
getUserDailyCalorieTarget(userId) ==
    LET data == MaybeSingle({u \in users : u.id = Number(userId)})
    IN IF data = Null THEN Null ELSE Val(data).daily_calorie_target

\* const value = target == null ? null : Number(target), for a numeric target
TargetValue(target) == IF target = Null THEN Null ELSE Some(Val(target))

\* the part of an e-mail address before '@': email.split('@')[0]
RECURSIVE LocalPart(_)
LocalPart(email) ==
    IF email = <<>> \/ Head(email) = "@" THEN <<>>
    ELSE <<Head(email)>> \o LocalPart(Tail(email))

\* const effectiveUsername = username || (email ? email.split('@')[0] : null)
EffectiveUsername(username, email) ==
    IF ~(username = Null \/ Val(username) = <<>>) THEN username
    ELSE IF ~(email = Null \/ Val(email) = <<>>) THEN Some(LocalPart(Val(email)))
    ELSE Null

TargetBodies == [target : {Null, Some(0), Some(1500)}]

SyncBodies ==
    [firebase_uid : {Null, Some("u1"), Some("u3")},
     email : {Null, Some(<<"b", "@", "x">>)},
     username : {Null, Some(<<"n">>)}]

\* GET /api/users/me
UsersMe(r) ==
    /\ reqs[r].pc = "handler"
    /\ reqs[r].route = "GET /api/users/me"
    /\ \E fail \in StoreFails :
         LET q == [reqs[r] EXCEPT !.handlerRuns = @ + 1]
             userId == RequesterId(q)
         IN reqs' = [reqs EXCEPT ![r] =
                 IF FalsyNum(userId) THEN Reject(q, 401, "User tidak terautentikasi")
                 ELSE IF fail THEN Reject(Failed(q), 500, "Gagal mengambil profil user")
                 ELSE Respond(q, 200, getUserProfileById(Val(userId)))]
    /\ UNCHANGED <<store, faults, nwrites>>

\* GET /api/users/:id/daily-target
UsersGetTarget(r) ==
    /\ reqs[r].pc = "handler"
    /\ reqs[r].route = "GET /api/users/:id/daily-target"
    /\ \E id \in PathIds, fail \in StoreFails :
         LET q == [reqs[r] EXCEPT !.handlerRuns = @ + 1, !.params = [id |-> Some(id)]]
         IN reqs' = [reqs EXCEPT ![r] =
                 IF fail THEN Reject(Failed(q), 500, "Gagal mengambil target kalori harian")
                 ELSE Respond(q, 200, getUserDailyCalorieTarget(id))]
    /\ UNCHANGED <<store, faults, nwrites>>

\* PUT /api/users/:id/daily-target, with updateUserDailyCalorieTarget
UsersPutTarget(r) ==
    /\ reqs[r].pc = "handler"
    /\ reqs[r].route = "PUT /api/users/:id/daily-target"
    /\ \E id \in PathIds, body \in TargetBodies, fail \in StoreFails :
         LET q == [reqs[r] EXCEPT !.handlerRuns = @ + 1,
                                  !.params = [id |-> Some(id)], !.body = body]
             value == TargetValue(Get(body, "target"))
         IN IF fail
            THEN /\ reqs' = [reqs EXCEPT ![r] =
                        Reject(Failed(q), 500, "Gagal mengupdate target kalori harian")]
                 /\ UNCHANGED <<store, nwrites>>
            ELSE /\ users' = {IF u.id = Number(id)
                              THEN [u EXCEPT !.daily_calorie_target = value] ELSE u : u \in users}
                 /\ nwrites' = nwrites + 1
                 /\ reqs' = [reqs EXCEPT ![r] = Respond([q EXCEPT !.writes = @ + 1], 200, value)]
                 /\ UNCHANGED <<forums, forum_comments, food_logs, testimonials, makanan, seq>>
    /\ UNCHANGED faults

\* POST /api/auth/sync-user writing the e-mail and username it was sent
\* over those of the row it finds
SyncUserUpsert(r) ==
    /\ reqs[r].pc = "handler"
    /\ reqs[r].route = "POST /api/auth/sync-user"
    /\ \E body \in SyncBodies :
         LET q == [reqs[r] EXCEPT !.handlerRuns = @ + 1, !.body = body]
             rows == {u \in users : u.firebase_uid = Val(body.firebase_uid)}
         IN /\ body.firebase_uid # Null /\ rows # {}
            /\ users' = (users \ rows) \cup
                    {[u EXCEPT !.email = body.email, !.username = body.username] : u \in rows}
            /\ reqs' = [reqs EXCEPT ![r] = Respond(q, 200, Some((CHOOSE u \in rows : TRUE).id))]
    /\ UNCHANGED <<forums, forum_comments, food_logs, testimonials, makanan, seq, faults, nwrites>>

\* POST /api/auth/sync-user up to the select of syncFirebaseUser
SyncUser(r) ==
    /\ reqs[r].pc = "handler"
    /\ reqs[r].route = "POST /api/auth/sync-user"
    /\ \E body \in SyncBodies, fail \in StoreFails :
         LET q == [reqs[r] EXCEPT !.handlerRuns = @ + 1, !.body = body]
             rows == {u \in users : u.firebase_uid = Val(body.firebase_uid)}
         IN reqs' = [reqs EXCEPT ![r] =
                 IF FalsyStr(body.firebase_uid) THEN Reject(q, 400, "firebase_uid wajib diisi")
                 ELSE IF fail \/ Cardinality(rows) > 1
                 THEN Reject(Failed(q), 500, "Gagal sinkronisasi user ke Supabase")
                 ELSE IF rows # {} THEN Respond(q, 200, Some((CHOOSE u \in rows : TRUE).id))
                 ELSE [q EXCEPT !.pc = "write"]]
    /\ UNCHANGED <<store, faults, nwrites>>

\* whether users rejects a second row with a firebase_uid it already holds:
\* the schema is not in the repository
UidConstraint == BOOLEAN

\* the insert of syncFirebaseUser: { firebase_uid, email, username: effectiveUsername }
SyncUserWrite(r) ==
    /\ reqs[r].pc = "write"
    /\ reqs[r].route = "POST /api/auth/sync-user"
    /\ \E failure \in StoreFails, enforced \in UidConstraint :
         LET q == reqs[r]
             taken == \E u \in users : u.firebase_uid = Val(q.body.firebase_uid)
             fail == failure \/ (taken /\ enforced)
             created == [id |-> seq.users + 1, firebase_uid |-> Val(q.body.firebase_uid),
                         role |-> DefaultRole, email |-> q.body.email,
                         username |-> EffectiveUsername(q.body.username, q.body.email),
                         daily_calorie_target |-> Null]
         IN IF fail
            THEN /\ reqs' = [reqs EXCEPT ![r] = Reject(Failed(q), 500, "Gagal sinkronisasi user ke Supabase")]
                 /\ UNCHANGED <<store, nwrites>>
            ELSE /\ users' = users \cup {created}
                 /\ seq' = [seq EXCEPT !.users = @ + 1]
                 /\ nwrites' = nwrites + 1
                 /\ reqs' = [reqs EXCEPT ![r] = Respond([q EXCEPT !.writes = @ + 1], 200, Some(created.id))]
                 /\ UNCHANGED <<forums, forum_comments, food_logs, testimonials, makanan>>
    /\ UNCHANGED faults

-----------------------------------------------------------------------------
(* testimoniService and routes/testimonials.js *)

\* the row addTestimoni inserts
NewTestimonial(id, userId, username, job, message, created_at) ==
    [id |-> id, user_id |-> userId, username |-> username, job |-> job, message |-> message,
     created_at |-> created_at]

\* values of new Date().toISOString() at the insert
Clock == {1, 2}

\* .order('created_at', { ascending: false }): the orders the store can
\* return the rows in
OrderedDesc(rows) ==
    {t \in [1..Cardinality(rows) -> rows] :
        /\ \A i, j \in DOMAIN t : i # j => t[i] # t[j]
        /\ \A i, j \in DOMAIN t : i < j => t[i].created_at >= t[j].created_at}

TestimonialBody == [username |-> Some("n"), job |-> Some("j"), message |-> Some("m")]

TestimonialBodies ==
    {TestimonialBody} \cup {[TestimonialBody EXCEPT ![k] = Null] : k \in {"username", "job", "message"}}

\* GET /api/testimonials passing a store error on as a 500
TestimonialsGetThrowing(r) ==
    /\ reqs[r].pc = "handler"
    /\ reqs[r].route = "GET /api/testimonials"
    /\ \E fail \in StoreFails, data \in OrderedDesc(testimonials) :
         LET q == [reqs[r] EXCEPT !.handlerRuns = @ + 1, !.failed = fail]
         IN reqs' = [reqs EXCEPT ![r] =
                 IF fail THEN Reject(q, 500, StoreError) ELSE Respond(q, 200, Some(data))]
    /\ UNCHANGED <<store, faults, nwrites>>

\* GET /api/testimonials, with getAllTestimonials, which answers [] when the
\* store call returns an error
TestimonialsGet(r) ==
    /\ reqs[r].pc = "handler"
    /\ reqs[r].route = "GET /api/testimonials"
    /\ \E fail \in StoreFails, data \in OrderedDesc(testimonials) :
         LET q == [reqs[r] EXCEPT !.handlerRuns = @ + 1, !.failed = fail]
         IN reqs' = [reqs EXCEPT ![r] =
                 Respond(q, 200, Some(IF fail THEN <<>> ELSE data))]
    /\ UNCHANGED <<store, faults, nwrites>>

\* GET /api/testimonials/user/:userId, with getTestimonialsByUserId
TestimonialsGetUser(r) ==
    /\ reqs[r].pc = "handler"
    /\ reqs[r].route = "GET /api/testimonials/user/:userId"
    /\ \E userId \in PathIds, fail \in StoreFails :
         LET q == [reqs[r] EXCEPT !.handlerRuns = @ + 1, !.params = [userId |-> Some(userId)]]
         IN \E data \in OrderedDesc({t \in testimonials : t.user_id = Number(userId)}) :
              reqs' = [reqs EXCEPT ![r] =
                  IF fail THEN Reject(Failed(q), 500, "Gagal mengambil testimoni user")
                  ELSE Respond(q, 200, Some(data))]
    /\ UNCHANGED <<store, faults, nwrites>>

\* POST /api/testimonials writing its row over the table
TestimonialsPostOver(r) ==
    /\ reqs[r].pc = "handler"
    /\ reqs[r].route = "POST /api/testimonials"
    /\ reqs[r].user # Null
    /\ LET q == [reqs[r] EXCEPT !.handlerRuns = @ + 1, !.body = TestimonialBody]
           created == NewTestimonial(seq.testimonials + 1, Val(RequesterId(q)), "n", "j", "m", 2)
       IN /\ testimonials' = {created}
          /\ seq' = [seq EXCEPT !.testimonials = @ + 1]
          /\ nwrites' = nwrites + 1
          /\ reqs' = [reqs EXCEPT ![r] = Respond([q EXCEPT !.writes = @ + 1], 201, Some(created))]
          /\ UNCHANGED <<users, forums, forum_comments, food_logs, makanan>>
    /\ UNCHANGED faults

\* POST /api/testimonials, with addTestimoni
TestimonialsPost(r) ==
    /\ reqs[r].pc = "handler"
    /\ reqs[r].route = "POST /api/testimonials"
    /\ \E body \in TestimonialBodies, fail \in StoreFails, now \in Clock :
         LET q == [reqs[r] EXCEPT !.handlerRuns = @ + 1, !.body = body]
             userId == RequesterId(q)
             created == NewTestimonial(seq.testimonials + 1, Val(userId), Val(body.username),
                                       Val(body.job), Val(body.message), now)
         IN IF FalsyNum(userId)
            THEN /\ reqs' = [reqs EXCEPT ![r] = Reject(q, 400, "User tidak terautentikasi")]
                 /\ UNCHANGED <<store, nwrites>>
            ELSE IF FalsyStr(body.username) \/ FalsyStr(body.job) \/ FalsyStr(body.message)
            THEN /\ reqs' = [reqs EXCEPT ![r] =
                        Reject(q, 400, "username, job, dan message wajib diisi")]
                 /\ UNCHANGED <<store, nwrites>>
            ELSE IF fail
            THEN /\ reqs' = [reqs EXCEPT ![r] = Reject(Failed(q), 500, "Gagal menambahkan testimoni")]
                 /\ UNCHANGED <<store, nwrites>>
            ELSE /\ testimonials' = testimonials \cup {created}
                 /\ seq' = [seq EXCEPT !.testimonials = @ + 1]
                 /\ nwrites' = nwrites + 1
                 /\ reqs' = [reqs EXCEPT ![r] =
                        Respond([q EXCEPT !.writes = @ + 1], 201, Some(created))]
                 /\ UNCHANGED <<users, forums, forum_comments, food_logs, makanan>>
    /\ UNCHANGED faults

-----------------------------------------------------------------------------
(* services/foodsService.js *)

\* the white space String.prototype.trim and /\s+/ remove
IsSpace(c) == c = " "

RECURSIVE TrimStart(_)
TrimStart(s) == IF s # <<>> /\ IsSpace(Head(s)) THEN TrimStart(Tail(s)) ELSE s

RECURSIVE TrimEnd(_)
TrimEnd(s) == IF s # <<>> /\ IsSpace(s[Len(s)]) THEN TrimEnd(SubSeq(s, 1, Len(s) - 1)) ELSE s

\* (query || '').trim()
Trim(s) == TrimEnd(TrimStart(s))

RECURSIVE FirstWord(_)
\* normalized.split(/\s+/)[0]
FirstWord(s) ==
    IF s = <<>> \/ IsSpace(Head(s)) THEN <<>> ELSE <<Head(s)>> \o FirstWord(Tail(s))

\* the case folding of ILIKE, over the letters the catalog uses
Lower(c) == CASE c = "R" -> "r" [] c = "I" -> "i" [] c = "T" -> "t" [] OTHER -> c

\* name ILIKE '%word%'
ILike(name, word) ==
    \E i \in 0..(Len(name) - Len(word)) :
        \A j \in 1..Len(word) : Lower(name[i + j]) = Lower(word[j])

\* .limit(n) on a select without order: any n of the rows, or all of them
\* when there are fewer
Limit(rows, n) ==
    {S \in SUBSET rows :
        Cardinality(S) = IF Cardinality(rows) < n THEN Cardinality(rows) ELSE n}

\* getAllFoods returning the whole table
getAllFoodsUncut(limit) == {makanan}

\* getAllFoods: select * from makanan limit $1 -- the results it can return
getAllFoods(limit) == Limit(makanan, limit)

\* searchFoodsByName: select * from makanan where name ilike '%firstWord%'
\* limit $2; [] without a store call when the query trims to nothing
searchFoodsByName(query, limit) ==
    LET normalized == Trim(query)
    IN IF normalized = <<>> THEN {{}}
       ELSE Limit({m \in makanan : ILike(m.name, FirstWord(normalized))}, limit)

\* getFirstFoodByName: results[0] || null
getFirstFoodByName(query) ==
    {IF S = {} THEN Null ELSE Some(CHOOSE m \in S : TRUE) : S \in searchFoodsByName(query, 1)}

\* the greatest of a set of numbers, 0 for none
Max(S) == IF S = {} THEN 0 ELSE CHOOSE x \in S : \A y \in S : y <= x

\* the row createFood inserts
NewFood(id, name, calories, proteins, carbohydrate, fat, image_url) ==
    [id |-> id, name |-> name, calories |-> calories, proteins |-> proteins,
     carbohydrate |-> carbohydrate, fat |-> fat,
     image |-> IF FalsyStr(image_url) THEN Null ELSE image_url]

\* whether makanan rejects a second row with an id it already holds: the
\* schema is not in the repository
IdConstraint == BOOLEAN

-----------------------------------------------------------------------------
(* routes/foods.js *)

\* getAllFoods(limit ? Number(limit) : 10)
DefaultAllLimit == 10

\* searchFoodsByName(query, limit ? Number(limit) : 5)
DefaultSearchLimit == 5

\* getAllFoods(100)
DebugLimit == 100

SearchTexts ==
    {Null, Some(<<>>), Some(<<" ">>), Some(<<"r", "i">>), Some(<<" ", "T", "E", " ", "x">>)}

SearchQueries == [query : SearchTexts, limit : {Null, Some("1"), Some("2")}]

FirstQueries == [query : SearchTexts]

FoodBody ==
    [name |-> Some(<<"t", "e", "a">>), calories |-> Some(1), proteins |-> Null,
     carbohydrate |-> Null, fat |-> Null, image_url |-> Null]

\* bodies of POST /api/foods: complete, with calories 0, with the optional
\* fields, and with a required field missing
FoodPostBodies ==
    {FoodBody, [FoodBody EXCEPT !.calories = Some(0)],
     [FoodBody EXCEPT !.proteins = Some(1), !.image_url = Some("u")],
     [FoodBody EXCEPT !.name = Null], [FoodBody EXCEPT !.name = Some(<<>>)],
     [FoodBody EXCEPT !.calories = Null]}

\* !query
NoText(o) == o = Null \/ Val(o) = <<>>

\* GET /api/foods/search
FoodsSearch(r) ==
    /\ reqs[r].pc = "handler"
    /\ reqs[r].route = "GET /api/foods/search"
    /\ \E query \in SearchQueries, fail \in StoreFails :
         LET q == [reqs[r] EXCEPT !.handlerRuns = @ + 1, !.query = query]
             all == NoText(query.query) \/ Trim(Val(query.query)) = <<>>
             results ==
                 IF all
                 THEN getAllFoods(IF query.limit = Null THEN DefaultAllLimit
                                  ELSE Number(Val(query.limit)))
                 ELSE searchFoodsByName(Val(query.query),
                                        IF query.limit = Null THEN DefaultSearchLimit
                                        ELSE Number(Val(query.limit)))
         IN \E foods \in results :
              reqs' = [reqs EXCEPT ![r] =
                  IF fail THEN Reject(Failed(q), 500, "Gagal mencari makanan")
                  ELSE Respond(q, 200, Some(foods))]
    /\ UNCHANGED <<store, faults, nwrites>>

\* GET /api/foods/first
FoodsFirst(r) ==
    /\ reqs[r].pc = "handler"
    /\ reqs[r].route = "GET /api/foods/first"
    /\ \E query \in FirstQueries, fail \in StoreFails :
         LET q == [reqs[r] EXCEPT !.handlerRuns = @ + 1, !.query = query]
         IN IF NoText(query.query)
            THEN reqs' = [reqs EXCEPT ![r] = Reject(q, 400, "query wajib diisi")]
            ELSE \E food \in getFirstFoodByName(Val(query.query)) :
                   reqs' = [reqs EXCEPT ![r] =
                       IF fail /\ Trim(Val(query.query)) # <<>>
                       THEN Reject(Failed(q), 500, "Gagal mengambil data makanan")
                       ELSE Respond(q, 200, food)]
    /\ UNCHANGED <<store, faults, nwrites>>

\* GET /api/foods/all, the debug endpoint: its 500 carries error.message
FoodsAll(r) ==
    /\ reqs[r].pc = "handler"
    /\ reqs[r].route = "GET /api/foods/all"
    /\ \E foods \in getAllFoods(DebugLimit), fail \in StoreFails :
         LET q == [reqs[r] EXCEPT !.handlerRuns = @ + 1]
         IN reqs' = [reqs EXCEPT ![r] =
                 IF fail
                 THEN [Reject(Failed(q), 500, "Gagal mengambil data makanan")
                          EXCEPT !.data = Some([details |-> StoreError])]
                 ELSE Respond(q, 200, Some([data |-> foods, count |-> Cardinality(foods)]))]
    /\ UNCHANGED <<store, faults, nwrites>>

\* POST /api/foods up to the read of the greatest id in createFood
FoodsPost(r) ==
    /\ reqs[r].pc = "handler"
    /\ reqs[r].route = "POST /api/foods"
    /\ \E body \in FoodPostBodies, fail \in StoreFails :
         LET q == [reqs[r] EXCEPT !.handlerRuns = @ + 1, !.body = body]
             lastId == Max({m.id : m \in makanan})
         IN reqs' = [reqs EXCEPT ![r] =
                 IF NoText(body.name) \/ body.calories = Null
                 THEN Reject(q, 400, "name dan calories wajib diisi")
                 ELSE IF fail THEN Reject(Failed(q), 500, "Gagal menambah makanan baru")
                 ELSE [q EXCEPT !.found = Some([id |-> lastId + 1]), !.pc = "write"]]
    /\ UNCHANGED <<store, faults, nwrites>>

\* the insert of createFood: { id: newId, name, ..., image: image_url || null }
FoodsPostWrite(r) ==
    /\ reqs[r].pc = "write"
    /\ reqs[r].route = "POST /api/foods"
    /\ \E fail \in StoreFails, enforced \in IdConstraint :
         LET q == reqs[r]
             newId == Val(q.found).id
             created == NewFood(newId, Val(q.body.name), Val(q.body.calories), q.body.proteins,
                                q.body.carbohydrate, q.body.fat, q.body.image_url)
             conflict == enforced /\ \E m \in makanan : m.id = newId
         IN IF fail \/ conflict
            THEN /\ reqs' = [reqs EXCEPT ![r] =
                        Reject(Failed(q), 500, "Gagal menambah makanan baru")]
                 /\ UNCHANGED <<store, nwrites>>
            ELSE /\ makanan' = makanan \cup {created}
                 /\ nwrites' = nwrites + 1
                 /\ reqs' = [reqs EXCEPT ![r] =
                        Respond([q EXCEPT !.writes = @ + 1], 201, Some(created))]
                 /\ UNCHANGED <<users, forums, forum_comments, food_logs, testimonials, seq>>
    /\ UNCHANGED faults

-----------------------------------------------------------------------------
(* src/index.js: the 404 handler and the global error handler *)

\* no router matched: a path under /api/ is answered 404
NotFound(r) ==
    /\ reqs[r].pc = "handler"
    /\ reqs[r].route \in UnmatchedRoutes
    /\ reqs' = [reqs EXCEPT ![r] = Reject(reqs[r], 404, "Endpoint tidak ditemukan")]
    /\ UNCHANGED <<store, faults, nwrites>>

\* a request stopped by cors() or express.json() before any route: the error
\* passed to next(err) is an Origin the cors callback refuses or a body
\* express.json() cannot parse
PipelineError(r) ==
    /\ reqs[r].pc = "idle"
    /\ \E route \in Routes, e \in {"Not allowed by CORS", "Unexpected token in JSON"} :
         reqs' = [reqs EXCEPT ![r] =
                [Idle EXCEPT !.route = route, !.err = Some(e), !.pc = "error"]]
    /\ UNCHANGED <<store, faults, nwrites>>

\* res.headersSent
HeadersSent(q) == q.status # 0

\* an error handler that always passes the error on and sends nothing
GlobalErrorHandlerSilent(q, headersSent) == [q EXCEPT !.pc = "done"]

\* app.use((err, req, res, next) => ...): next(err) when the headers are
\* sent (the response stays as it is), else 500 with the fixed message
GlobalErrorHandler(q, headersSent) ==
    IF headersSent THEN [q EXCEPT !.pc = "done"]
    ELSE Reject(q, 500, "Terjadi kesalahan di server")

\* an error passed to next(err) reaches the global error handler
ErrorHandler(r) ==
    /\ reqs[r].pc = "error"
    /\ reqs' = [reqs EXCEPT ![r] = GlobalErrorHandler(reqs[r], HeadersSent(reqs[r]))]
    /\ UNCHANGED <<store, faults, nwrites>>

-----------------------------------------------------------------------------
(* The store the server starts against, and the specifications *)

UserRow(id, uid, role) ==
    [id |-> id, firebase_uid |-> uid, role |-> role, email |-> Null,
     username |-> Null, daily_calorie_target |-> Null]

\* two provisioned users (u1 ordinary, u2 admin; u3 is verified by the
\* identity provider but has no row), a forum and a comment of each
SeedUsers == {UserRow(1, "u1", DefaultRole), UserRow(2, "u2", "admin")}

\* catalog rows 1..n, named rice and tea in turn
Catalog(n) ==
    {NewFood(i, IF i % 2 = 1 THEN <<"r", "i", "c", "e">> ELSE <<"t", "e", "a">>,
             130, Some(2), Some(28), Some(0), Null) : i \in 1..n}

\* a store holding the given users, catalog and testimonials
InitStoreOf(rows, catalog, testimonies) ==
    /\ users = rows
    /\ forums = {NewForum(1, 1, "a", "a"), NewForum(2, 2, "a", "a")}
    /\ forum_comments = {NewComment(1, 1, 1, "a", Null), NewComment(2, 1, 2, "a", Null)}
    /\ food_logs = {NewFoodLog(1, 1, 1, "Rice", 200, Some(1))}
    /\ testimonials = testimonies
    /\ makanan = catalog
    /\ seq = [users |-> Cardinality(rows), forums |-> 2, forum_comments |-> 2,
              food_logs |-> 1, testimonials |-> Cardinality(testimonies)]
    /\ nwrites = 0

InitStore == InitStoreOf(SeedUsers, Catalog(1), {})

\* one request at a time
Init ==
    /\ InitStore
    /\ faults = FALSE
    /\ reqs = [r \in Slots |-> IF r = 1 THEN Idle ELSE Off]

Next ==
    \E r \in Slots :
        \/ Arrive(r)
        \/ Finish(r)
        \/ GateToken(r)
        \/ GateVerify(r)
        \/ GateLookup(r)
        \/ ForumsGetAll(r)
        \/ ForumsGetOne(r)
        \/ ForumsPost(r)
        \/ ForumsPut(r)
        \/ ForumsPutWrite(r)
        \/ ForumsDelete(r)
        \/ ForumsDeleteWrite(r)
        \/ CommentsGet(r)
        \/ CommentsPost(r)
        \/ CommentsPut(r)
        \/ CommentsPutWrite(r)
        \/ CommentsDelete(r)
        \/ CommentsDeleteWrite(r)
        \/ FoodLogsGet(r)
        \/ FoodLogsPost(r)
        \/ FoodLogsDelete(r)
        \/ FoodLogsMonth(r)
        \/ FoodLogsNutrition(r)
        \/ UsersMe(r)
        \/ UsersGetTarget(r)
        \/ UsersPutTarget(r)
        \/ SyncUser(r)
        \/ SyncUserWrite(r)
        \/ TestimonialsGet(r)
        \/ TestimonialsGetUser(r)
        \/ TestimonialsPost(r)
        \/ FoodsSearch(r)
        \/ FoodsFirst(r)
        \/ FoodsAll(r)
        \/ FoodsPost(r)
        \/ FoodsPostWrite(r)
        \/ NotFound(r)
        \/ PipelineError(r)
        \/ ErrorHandler(r)


Spec == Init /\ [][Next]_vars

\* one request at a time, against a store whose calls can fail
InitFault ==
    /\ InitStore
    /\ faults = TRUE
    /\ reqs = [r \in Slots |-> IF r = 1 THEN Idle ELSE Off]

SpecFault == InitFault /\ [][Next]_vars

\* every route, under the credentials of LiveHeaders
NextLive ==
    \E r \in Slots :
        \/ ArriveLive(r)
        \/ Finish(r)
        \/ GateToken(r)
        \/ GateVerify(r)
        \/ GateLookup(r)
        \/ ForumsGetAll(r)
        \/ ForumsGetOne(r)
        \/ ForumsPost(r)
        \/ ForumsPut(r)
        \/ ForumsPutWrite(r)
        \/ ForumsDelete(r)
        \/ ForumsDeleteWrite(r)
        \/ CommentsGet(r)
        \/ CommentsPost(r)
        \/ CommentsPut(r)
        \/ CommentsPutWrite(r)
        \/ CommentsDelete(r)
        \/ CommentsDeleteWrite(r)
        \/ FoodLogsGet(r)
        \/ FoodLogsPost(r)
        \/ FoodLogsDelete(r)
        \/ FoodLogsMonth(r)
        \/ FoodLogsNutrition(r)
        \/ UsersMe(r)
        \/ UsersGetTarget(r)
        \/ UsersPutTarget(r)
        \/ SyncUser(r)
        \/ SyncUserWrite(r)
        \/ TestimonialsGet(r)
        \/ TestimonialsGetUser(r)
        \/ TestimonialsPost(r)
        \/ FoodsSearch(r)
        \/ FoodsFirst(r)
        \/ FoodsAll(r)
        \/ FoodsPost(r)
        \/ FoodsPostWrite(r)
        \/ NotFound(r)
        \/ PipelineError(r)
        \/ ErrorHandler(r)

\* request r, in flight and not yet answered, takes its next step: the call
\* it awaits (the verifier's, the store's) returns, with a result or an error
Served(r) ==
    /\ reqs[r].pc \notin {"idle", "off", "done"}
    /\ NextLive
    /\ reqs'[r] # reqs[r]

\* one request at a time, store calls can fail, every awaited call returns
SpecLive == InitFault /\ [][NextLive]_vars /\ \A r \in Slots : WF_vars(Served(r))

\* one request at a time on the food-log routes, several writes in a row
NextLogs ==
    \E r \in Slots :
        \/ ArriveLogs(r)
        \/ Finish(r)
        \/ GateToken(r)
        \/ GateVerify(r)
        \/ GateLookup(r)
        \/ FoodLogsGet(r)
        \/ FoodLogsPost(r)
        \/ FoodLogsDelete(r)

SpecLogs == Init /\ [][NextLogs]_vars

\* the users table is changed from outside the API while no request is in
\* flight: a row is removed or its role is set to another value
StoreEdit ==
    /\ \A r \in Slots : reqs[r].pc \in {"idle", "off"}
    /\ \E u \in users :
         \/ users' = users \ {u}
         \/ \E role \in {DefaultRole, "admin"} \ {u.role} :
              users' = (users \ {u}) \cup {[u EXCEPT !.role = role]}
    /\ UNCHANGED <<forums, forum_comments, food_logs, testimonials, makanan, seq,
                   faults, nwrites, reqs>>

\* one request at a time on the forum update and delete routes, the users
\* table changing between requests
NextRoles ==
    \E r \in Slots :
        \/ ArriveRoles(r)
        \/ Finish(r)
        \/ GateToken(r)
        \/ GateVerify(r)
        \/ GateLookup(r)
        \/ ForumsPut(r)
        \/ ForumsPutWrite(r)
        \/ ForumsDelete(r)
        \/ ForumsDeleteWrite(r)
        \/ StoreEdit

SpecRoles == Init /\ [][NextRoles]_vars

\* one request at a time on every route, against a store that already holds
\* a testimonial of user 2
InitTestimonials ==
    /\ InitStoreOf(SeedUsers, Catalog(1), {NewTestimonial(1, 2, "n", "j", "m", 1)})
    /\ faults = FALSE
    /\ reqs = [r \in Slots |-> IF r = 1 THEN Idle ELSE Off]

SpecTestimonials == InitTestimonials /\ [][Next]_vars

\* one request at a time on the testimonial routes, against a store that
\* holds a testimonial and whose calls can return an error
InitTestimonialsFault ==
    /\ InitStoreOf(SeedUsers, Catalog(1), {NewTestimonial(1, 2, "n", "j", "m", 1)})
    /\ faults = TRUE
    /\ reqs = [r \in Slots |-> IF r = 1 THEN Idle ELSE Off]

NextTestimonials ==
    \E r \in Slots :
        \/ ArriveTestimonials(r)
        \/ Finish(r)
        \/ GateToken(r)
        \/ GateVerify(r)
        \/ GateLookup(r)
        \/ TestimonialsGet(r)
        \/ TestimonialsGetUser(r)
        \/ TestimonialsPost(r)

SpecTestimonialsFault == InitTestimonialsFault /\ [][NextTestimonials]_vars

\* one request at a time on the foods routes, against a catalog of any size
\* up to CatalogSize
InitFoods ==
    /\ \E n \in 0..CatalogSize : InitStoreOf(SeedUsers, Catalog(n), {})
    /\ faults = FALSE
    /\ reqs = [r \in Slots |-> IF r = 1 THEN Idle ELSE Off]

NextFoods ==
    \E r \in Slots :
        \/ ArriveFoods(r)
        \/ Finish(r)
        \/ FoodsSearch(r)
        \/ FoodsFirst(r)
        \/ FoodsAll(r)
        \/ FoodsPost(r)
        \/ FoodsPostWrite(r)

SpecFoods == InitFoods /\ [][NextFoods]_vars

\* two requests at a time adding and listing foods, against a catalog that
\* is empty or holds one row
InitFoodsConc ==
    /\ \E n \in {0, 1} : InitStoreOf(SeedUsers, Catalog(n), {})
    /\ faults = FALSE
    /\ reqs = [r \in Slots |-> Idle]

NextFoodsConc ==
    \E r \in Slots :
        \/ ArriveWith(r, {"POST /api/foods", "GET /api/foods/all"}, {Null}, MaxFoodWrites)
        \/ Finish(r)
        \/ FoodsAll(r)
        \/ FoodsPost(r)
        \/ FoodsPostWrite(r)

SpecFoodsConc == InitFoodsConc /\ [][NextFoodsConc]_vars

\* two requests at a time on the food-log and daily-target routes, store
\* calls can fail
InitOwner ==
    /\ InitStore
    /\ faults = TRUE
    /\ reqs = [r \in Slots |-> Idle]

NextOwner ==
    \E r \in Slots :
        \/ ArriveOwner(r)
        \/ Finish(r)
        \/ GateToken(r)
        \/ GateVerify(r)
        \/ GateLookup(r)
        \/ FoodLogsGet(r)
        \/ FoodLogsPost(r)
        \/ FoodLogsDelete(r)
        \/ FoodLogsMonth(r)
        \/ FoodLogsNutrition(r)
        \/ UsersGetTarget(r)
        \/ UsersPutTarget(r)

SpecOwner == InitOwner /\ [][NextOwner]_vars

\* two requests at a time on the sync and profile routes
InitSync ==
    /\ InitStore
    /\ faults = FALSE
    /\ reqs = [r \in Slots |-> Idle]

NextSync ==
    \E r \in Slots :
        \/ ArriveSync(r)
        \/ Finish(r)
        \/ GateToken(r)
        \/ GateVerify(r)
        \/ GateLookup(r)
        \/ UsersMe(r)
        \/ SyncUser(r)
        \/ SyncUserWrite(r)

SpecSync == InitSync /\ [][NextSync]_vars

\* one request at a time on the sync and profile routes
SpecSyncSeq == Init /\ [][NextSync]_vars

\* two requests at a time on the forum and comment routes, against a store
\* in which u3 is provisioned as an ordinary user
InitConc ==
    /\ InitStoreOf(SeedUsers \cup {UserRow(3, "u3", DefaultRole)}, Catalog(1), {})
    /\ faults = FALSE
    /\ reqs = [r \in Slots |-> Idle]

NextConc ==
    \E r \in Slots :
        \/ ArriveConc(r)
        \/ Finish(r)
        \/ GateToken(r)
        \/ GateVerify(r)
        \/ GateLookup(r)
        \/ ForumsPut(r)
        \/ ForumsPutWrite(r)
        \/ ForumsDelete(r)
        \/ ForumsDeleteWrite(r)
        \/ CommentsPut(r)
        \/ CommentsPutWrite(r)
        \/ CommentsDelete(r)
        \/ CommentsDeleteWrite(r)

SpecConc == InitConc /\ [][NextConc]_vars

-----------------------------------------------------------------------------
(* Properties *)

Done(r) == reqs[r].pc = "done"

\* the requests that are in a slot and were not stopped by cors() or
\* express.json() in front of the routers
InFlight == {r \in Slots : reqs[r].pc \notin {"idle", "off"} /\ reqs[r].err = Null}

\* the protected routes: everything under /api/food-logs, /api/users and
\* /api/forums, and everything but GET under /api/testimonials
Protected(route) ==
    route \in FoodLogRoutes \cup UserRoutes \cup ForumRoutes \cup CommentRoutes
              \cup {"POST /api/testimonials", "DELETE /api/testimonials",
                    "GET /api/users", "GET /api/forums/1/2/3"}

\* a header that carries no credential: absent, not starting with
\* 'Bearer ', or 'Bearer ' with nothing after it
NoCredential(hdr) ==
    \/ hdr = Null
    \/ ~StartsWith(Val(hdr), BearerPrefix)
    \/ Val(hdr) = BearerPrefix

\* the update and delete routes of the owned resources
OwnedRoutes ==
    {"PUT /api/forums/:id", "DELETE /api/forums/:id",
     "PUT /api/forums/comments/:id", "DELETE /api/forums/comments/:id"}

\* the rows of the table a route of OwnedRoutes works on
OwnedTable(route) ==
    IF route \in ForumRoutes
    THEN {[id |-> f.id, user_id |-> f.user_id] : f \in forums}
    ELSE {[id |-> c.id, user_id |-> c.user_id] : c \in forum_comments}

\* the request passed the route's own validation and called its service
ServiceCalled(q) ==
    /\ q.handlerRuns > 0
    /\ q.user # Null
    /\ q.route = "PUT /api/forums/comments/:id" => ~FalsyStr(Get(q.body, "content"))

\* C1: a request to a protected route that carries no Authorization header
\* is answered 401, never reaches a handler and issues no write.
C1_NoHeaderRejected ==
    \A r \in InFlight :
        (Protected(reqs[r].route) /\ reqs[r].hdr = Null) =>
            /\ reqs[r].pc \in {"gate", "done"}
            /\ reqs[r].handlerRuns = 0
            /\ reqs[r].writes = 0
            /\ Done(r) => reqs[r].status = 401

C1_Witness ==
    \E r \in Slots :
        /\ Done(r) /\ reqs[r].hdr = Null /\ reqs[r].status = 401
        /\ reqs[r].route = "PUT /api/users/:id/daily-target"

\* C2: when the verifier accepts the token but no users row has the verified
\* uid, the gate answers 401 and the handler is never invoked.
C2_UnprovisionedRejected ==
    \A r \in InFlight :
        (/\ Protected(reqs[r].route)
         /\ reqs[r].firebaseUser # Null
         /\ ~\E u \in users : u.firebase_uid = Val(reqs[r].firebaseUser).uid) =>
            /\ reqs[r].pc \in {"lookup", "done"}
            /\ reqs[r].handlerRuns = 0
            /\ reqs[r].user = Null
            /\ Done(r) => reqs[r].status = 401

C2_Witness ==
    \E r \in Slots :
        /\ Done(r) /\ reqs[r].status = 401 /\ reqs[r].userReads = 1
        /\ reqs[r].firebaseUser # Null
        /\ Val(reqs[r].firebaseUser).uid = "u3"
        /\ ~\E u \in users : u.firebase_uid = "u3"

\* C3: an update or delete of an existing forum or comment succeeds when the
\* requester owns it, whatever the role; fails with 403 when the requester
\* neither owns it nor is admin; succeeds when a non-owner is admin.
C3_OwnerOrAdmin ==
    \A r \in Slots :
        (Done(r) /\ reqs[r].route \in OwnedRoutes /\ reqs[r].found # Null) =>
            LET owner == Val(reqs[r].found).user_id
                p == Val(reqs[r].user)
                ok == reqs[r].status \in {200, 204}
            IN /\ owner = p.supabaseUserId => ok
               /\ (owner # p.supabaseUserId /\ p.role # "admin") => reqs[r].status = 403
               /\ (owner # p.supabaseUserId /\ p.role = "admin") => ok

C3_Witness ==
    \E r \in Slots :
        /\ Done(r) /\ reqs[r].route = "DELETE /api/forums/comments/:id"
        /\ reqs[r].found # Null /\ reqs[r].status = 204
        /\ Val(reqs[r].found).user_id # Val(reqs[r].user).supabaseUserId
        /\ Val(reqs[r].user).role = "admin"

\* C4: an update or delete of a forum or comment whose id is not in the
\* store is answered 404, whoever asks; 403 is only answered for a row that
\* exists.
C4_NotFoundFirst ==
    \A r \in Slots :
        (Done(r) /\ reqs[r].route \in OwnedRoutes /\ ServiceCalled(reqs[r])) =>
            LET id == Number(Val(reqs[r].params.id))
                exists == \E x \in OwnedTable(reqs[r].route) : x.id = id
            IN /\ (~exists /\ reqs[r].writes = 0) => reqs[r].status = 404
               /\ reqs[r].status = 403 => exists

C4_Witness ==
    \E r \in Slots :
        /\ Done(r) /\ reqs[r].route = "PUT /api/forums/:id" /\ ServiceCalled(reqs[r])
        /\ reqs[r].status = 404
        /\ Val(reqs[r].user).role # "admin"
        /\ ~\E f \in forums : f.id = Number(Val(reqs[r].params.id))

\* request r is applying its write to row x: it passed the service's check
\* for x's id, and the verified caller's users row owns x or is admin
WriterOf(r, routes, x) ==
    /\ reqs[r].pc = "write" /\ reqs'[r].pc = "done"
    /\ reqs[r].route \in routes
    /\ Number(Val(reqs[r].params.id)) = x.id
    /\ reqs[r].firebaseUser # Null
    /\ \E u \in users :
         /\ u.firebase_uid = Val(reqs[r].firebaseUser).uid
         /\ u.id = x.user_id \/ u.role = "admin"

\* C5: under any interleaving of two requests, every step that changes or
\* removes a forum or comment row is the write of a request whose caller owns
\* that row or is admin.
C5_OnlyOwnerOrAdminWrites ==
    [][/\ \A f \in forums : f \notin forums' => \E r \in Slots : WriterOf(r, OwnedRoutes \cap ForumRoutes, f)
       /\ \A c \in forum_comments :
            c \notin forum_comments' => \E r \in Slots : WriterOf(r, OwnedRoutes \cap CommentRoutes, c)]_vars

\* an owner's update passed the check, an admin's delete of the same forum
\* was applied in between, and the update then met no row
C5_Witness ==
    \E a, b \in Slots :
        /\ a # b /\ Done(a) /\ Done(b)
        /\ reqs[a].route = "PUT /api/forums/:id" /\ reqs[a].found # Null
        /\ Val(reqs[a].found).user_id = Val(reqs[a].user).supabaseUserId
        /\ reqs[a].writes = 1 /\ reqs[a].status = 500
        /\ reqs[b].route = "DELETE /api/forums/:id" /\ reqs[b].status = 204
        /\ Val(reqs[b].user).role = "admin"
        /\ reqs[a].params.id = reqs[b].params.id
        /\ ~\E f \in forums : f.id = Number(Val(reqs[a].params.id))

\* request r is answered in this step
Answers(r) == reqs[r].pc # "done" /\ reqs'[r].pc = "done"

\* C11: the step that answers an update or delete of a forum or comment with
\* 403 or 404 leaves forums and forum_comments as they are, and the request
\* has sent no write to the store before it.
C11_RefusedWritesNothing ==
    [][\A r \in Slots :
         (Answers(r) /\ reqs'[r].route \in OwnedRoutes /\ reqs'[r].status \in {403, 404}) =>
             /\ reqs'[r].writes = 0
             /\ forums' = forums
             /\ forum_comments' = forum_comments]_vars

\* a non-owner's delete was answered 403 and the forum is still there, while
\* the other request was about to write
C11_Witness ==
    \E a, b \in Slots :
        /\ a # b /\ Done(a) /\ reqs[a].route = "DELETE /api/forums/:id"
        /\ reqs[a].status = 403 /\ reqs[a].writes = 0
        /\ \E f \in forums : f.id = Number(Val(reqs[a].params.id))
        /\ reqs[b].pc = "write"

\* the inputs the interface table lists as required, apart from path
\* parameters: the part of the request and its keys
RequiredInputs(route) ==
    CASE route = "GET /api/food-logs" -> [part |-> "query", keys |-> {"userId", "date"}]
      [] route = "POST /api/food-logs" ->
            [part |-> "body", keys |-> {"userId", "date", "foodName", "calories"}]
      [] route = "GET /api/food-logs/summary/month" ->
            [part |-> "query", keys |-> {"userId", "startDate", "endDate"}]
      [] route = "GET /api/food-logs/summary/nutrition" ->
            [part |-> "query", keys |-> {"userId", "date"}]
      [] route = "GET /api/foods/first" -> [part |-> "query", keys |-> {"query"}]
      [] route = "POST /api/foods" -> [part |-> "body", keys |-> {"name", "calories"}]
      [] route = "PUT /api/users/:id/daily-target" -> [part |-> "body", keys |-> {"target"}]
      [] route = "POST /api/auth/sync-user" -> [part |-> "body", keys |-> {"firebase_uid"}]
      [] route = "POST /api/forums" -> [part |-> "body", keys |-> {"title", "content"}]
      [] route \in {"POST /api/forums/:forumId/comments", "PUT /api/forums/comments/:id"} ->
            [part |-> "body", keys |-> {"content"}]
      [] route = "POST /api/testimonials" ->
            [part |-> "body", keys |-> {"username", "job", "message"}]
      [] OTHER -> [part |-> "body", keys |-> {}]

\* the handler ran and one of `keys` is absent from the part it reads
MissingInput(q, keys) ==
    /\ q.handlerRuns > 0
    /\ LET obj == IF RequiredInputs(q.route).part = "query" THEN q.query ELSE q.body
       IN \E k \in RequiredInputs(q.route).keys \cap keys : Get(obj, k) = Null

\* every key of the interface table
AllKeys ==
    {"userId", "date", "foodName", "calories", "startDate", "endDate", "query", "name",
     "target", "firebase_uid", "title", "content", "username", "job", "message"}

\* C12 as stated: a handler given a request without one of the required
\* inputs of the interface table answers 400 and writes nothing.
C12_MissingInputRejected ==
    \A r \in Slots :
        (Done(r) /\ MissingInput(reqs[r], AllKeys)) =>
            reqs[r].status = 400 /\ reqs[r].writes = 0

\* C12, amended: the same for every required input but the body target of
\* PUT /api/users/:id/daily-target, also when store calls fail (no store
\* call precedes the validation); a missing target is answered 200 and
\* stored as null; and a request answered 400 has written nothing.
C12_ValidatedInputRejected ==
    \A r \in Slots :
        Done(r) =>
            /\ MissingInput(reqs[r], AllKeys \ {"target"}) =>
                   reqs[r].status = 400 /\ reqs[r].writes = 0 /\ ~reqs[r].failed
            /\ (MissingInput(reqs[r], {"target"}) /\ ~reqs[r].failed) =>
                   reqs[r].status = 200 /\ reqs[r].writes = 1 /\ reqs[r].data = Null
            /\ reqs[r].status = 400 => reqs[r].writes = 0 /\ ~reqs[r].failed

\* a food log without calories was answered 400, nothing written
C12_Witness ==
    \E r \in Slots :
        /\ Done(r) /\ reqs[r].route = "POST /api/food-logs"
        /\ reqs[r].handlerRuns = 1 /\ reqs[r].body.calories = Null
        /\ reqs[r].status = 400 /\ reqs[r].writes = 0 /\ nwrites = 0

\* C13: outside GET /api/foods/all, a request whose handler met a failing
\* store call is answered 500 with a message that is not the message of the
\* store's error.
C13_FixedMessageOnFailure ==
    \A r \in Slots :
        (Done(r) /\ reqs[r].failed /\ reqs[r].handlerRuns > 0
            /\ reqs[r].route # "GET /api/foods/all") =>
            reqs[r].status = 500 /\ reqs[r].error # StoreError

\* C14: a request that met a failing store call, in the gate or in the
\* handler, is answered 500.
C14_FailureIs500 ==
    \A r \in Slots : (Done(r) /\ reqs[r].failed) => reqs[r].status = 500

\* C15: a request for a path under /api/ that no router defines, which the
\* middleware in front of the routers let through, is answered 404 with an
\* error body, with or without credentials.
C15_UnmatchedIs404 ==
    \A r \in Slots :
        (Done(r) /\ reqs[r].route \in UnmatchedRoutes /\ reqs[r].err = Null) =>
            reqs[r].status = 404 /\ reqs[r].error # ""

\* C16: a request whose error was passed to next(err) is answered 500 with
\* the fallback's error body; no error reaches the fallback after a response
\* was sent, and given one the fallback would send nothing: the response
\* stays as it was.
C16_FallbackAnswers500 ==
    \A r \in Slots :
        /\ (Done(r) /\ reqs[r].err # Null) =>
               reqs[r].status = 500 /\ reqs[r].error = "Terjadi kesalahan di server"
        /\ reqs[r].pc = "error" => reqs[r].err # Null /\ ~HeadersSent(reqs[r])
        /\ LET sent == GlobalErrorHandler(reqs[r], TRUE)
           IN sent.status = reqs[r].status /\ sent.error = reqs[r].error
              /\ sent.data = reqs[r].data

\* a request the cors callback refused was answered 500 by the fallback
C16_Witness ==
    \E r \in Slots :
        /\ Done(r) /\ reqs[r].err = Some("Not allowed by CORS")
        /\ reqs[r].status = 500 /\ reqs[r].handlerRuns = 0

\* ids of food-log rows
LogIds == {1, 2, 3}

\* a DELETE /api/food-logs/:id has been answered 204 for i, an id the store
\* has handed out to a row
DeletedLog(i) ==
    /\ i <= seq.food_logs
    /\ \E r \in Slots :
         /\ Done(r) /\ reqs[r].route = "DELETE /api/food-logs/:id"
         /\ reqs[r].status = 204 /\ Number(Val(reqs[r].params.id)) = i

\* no row with id i in the table nor in the answer of a GET /api/food-logs
NoLog(i) ==
    /\ \A l \in food_logs : l.id # i
    /\ \A r \in Slots :
         (Done(r) /\ reqs[r].route = "GET /api/food-logs" /\ reqs[r].status = 200) =>
             \A l \in Val(reqs[r].data) : l.id # i

\* C17: once DELETE /api/food-logs/:id has succeeded for an id, no later
\* state holds a row with that id and no later GET returns one; and every
\* successful DELETE, the first or a repeated one, leaves exactly the rows
\* with other ids, unchanged.
C17_DeletedStaysDeleted ==
    /\ \A i \in LogIds : [](DeletedLog(i) => []NoLog(i))
    /\ [][\A r \in Slots :
            (Answers(r) /\ reqs'[r].route = "DELETE /api/food-logs/:id"
                /\ reqs'[r].status = 204) =>
                food_logs' = {l \in food_logs : l.id # Number(Val(reqs'[r].params.id))}]_vars

\* after a row was added and three writes were applied, a DELETE of id 1 was
\* answered 204 and the added row is the only one left
C17_Witness ==
    \E r \in Slots :
        /\ Done(r) /\ reqs[r].route = "DELETE /api/food-logs/:id" /\ reqs[r].status = 204
        /\ reqs[r].params.id = Some("1")
        /\ nwrites = 3 /\ seq.food_logs = 2
        /\ Cardinality(food_logs) = 1 /\ \A l \in food_logs : l.id = 2

\* the bodies of POST /api/food-logs with every required field
CompleteLogBodies ==
    {b \in FoodLogPostBodies :
        \A k \in {"userId", "date", "foodName", "calories"} : b[k] # Null}

\* the row a body asks for, under id i
AskedLog(i, b) ==
    [id |-> i, user_id |-> Val(b.userId), date |-> Val(b.date),
     food_name_custom |-> Val(b.foodName), calories |-> Val(b.calories),
     food_id |-> IF b.foodId = Null \/ Val(b.foodId) = 0 THEN Null ELSE b.foodId]

\* POST /api/food-logs with body b has been answered 201 with a row of id i
PostedLog(i, b) ==
    \E r \in Slots :
        /\ Done(r) /\ reqs[r].route = "POST /api/food-logs" /\ reqs[r].status = 201
        /\ reqs[r].body = b /\ Val(reqs[r].data).id = i

\* a GET /api/food-logs for the user and date of b, answered while row i is
\* in the table, returns the row b asked for
ReturnsLog(i, b) ==
    \A r \in Slots :
        (/\ Done(r) /\ reqs[r].route = "GET /api/food-logs" /\ reqs[r].status = 200
         /\ Number(Val(reqs[r].query.userId)) = Val(b.userId)
         /\ Val(reqs[r].query.date) = Val(b.date)
         /\ \E l \in food_logs : l.id = i) =>
            AskedLog(i, b) \in Val(reqs[r].data)

\* C18: a POST /api/food-logs with every required field (calories 0
\* included) is answered 201 with the row it asked for, a missing or falsy
\* foodId stored as null; and from then on, as long as that row is not
\* deleted, every GET for its user and date returns it.
C18_PostThenGet ==
    /\ [](\A r \in Slots :
            (Done(r) /\ reqs[r].route = "POST /api/food-logs" /\ reqs[r].handlerRuns > 0
                /\ reqs[r].body \in CompleteLogBodies) =>
                /\ reqs[r].status = 201
                /\ reqs[r].data = Some(AskedLog(Val(reqs[r].data).id, reqs[r].body))
                /\ Val(reqs[r].data) \in food_logs)
    /\ \A i \in {2, 3}, b \in CompleteLogBodies : [](PostedLog(i, b) => []ReturnsLog(i, b))

\* a row with calories 0 and foodId 0 was posted for user 1, and a later GET
\* for user 1 returned it beside the row the store started with
C18_Witness ==
    \E r \in Slots :
        /\ Done(r) /\ reqs[r].route = "GET /api/food-logs" /\ reqs[r].status = 200
        /\ \E l \in Val(reqs[r].data) : l.id = 2 /\ l.calories = 0 /\ l.food_id = Null
        /\ \E l \in Val(reqs[r].data) : l.id = 1

\* a query parameter that is absent, empty or made of spaces only
Blank(o) == o = Null \/ \A k \in 1..Len(Val(o)) : Val(o)[k] = " "

\* the limit a search asks for, 10 when it names none
AskedLimit(query) == IF query.limit = Null THEN 10 ELSE Number(Val(query.limit))

\* C19: GET /api/foods/search with an absent, empty or whitespace-only query
\* answers with rows of the catalog, whatever their names, and as many of
\* them as the smaller of limit (10 when absent) and the size of the catalog.
C19_BlankSearchReturnsLimitRows ==
    \A r \in Slots :
        (Done(r) /\ reqs[r].route = "GET /api/foods/search" /\ reqs[r].status = 200
            /\ Blank(reqs[r].query.query)) =>
            LET n == AskedLimit(reqs[r].query)
                rows == Val(reqs[r].data)
            IN /\ rows \subseteq makanan
               /\ Cardinality(rows) = IF Cardinality(makanan) < n THEN Cardinality(makanan) ELSE n

\* a whitespace-only query without limit was answered with 10 of 11 rows,
\* rows of both names among them
C19_Witness ==
    \E r \in Slots :
        /\ Done(r) /\ reqs[r].route = "GET /api/foods/search" /\ reqs[r].status = 200
        /\ reqs[r].query = [query |-> Some(<<" ">>), limit |-> Null]
        /\ Cardinality(makanan) = 11 /\ Cardinality(Val(reqs[r].data)) = 10
        /\ \E m \in Val(reqs[r].data) : m.name = <<"t", "e", "a">>
        /\ \E m \in Val(reqs[r].data) : m.name = <<"r", "i", "c", "e">>

\* C20: under any interleaving of POST /api/auth/sync-user requests the users
\* table holds at most one row per firebase_uid.
C20_OneRowPerUid ==
    \A u, v \in users : u.firebase_uid = v.firebase_uid => u = v

\* C21: no step removes or changes a testimonials row, and a step that
\* changes the table is the answer 201 of a POST /api/testimonials admitted
\* by the gate, adding exactly one row whose user_id is the id of the users
\* row of the verified uid.
C21_TestimonialsAppendOnly ==
    [][/\ testimonials \subseteq testimonials'
       /\ testimonials' # testimonials =>
            \E r \in Slots :
                /\ Answers(r) /\ reqs'[r].route = "POST /api/testimonials"
                /\ reqs'[r].status = 201 /\ reqs'[r].gates > 0
                /\ \E t \in testimonials' \ testimonials :
                     /\ testimonials' = testimonials \cup {t}
                     /\ \A o \in testimonials : o.id # t.id
                     /\ t.user_id = Val(reqs'[r].user).supabaseUserId
                     /\ \E u \in users :
                          /\ u.firebase_uid = Val(reqs'[r].firebaseUser).uid
                          /\ u.id = t.user_id]_vars

\* user 1 has added a testimonial beside the one user 2 had
C21_Witness ==
    /\ Cardinality(testimonials) = 2
    /\ \E t \in testimonials : t.id = 1 /\ t.user_id = 2
    /\ \E r \in Slots :
         /\ Done(r) /\ reqs[r].route = "POST /api/testimonials" /\ reqs[r].status = 201
         /\ Val(reqs[r].data).user_id = 1 /\ Val(reqs[r].data) \in testimonials

\* the users rows of the uid the verifier returned for request q
RowsOfUid(q) == {u \in users : u.firebase_uid = Val(q.firebaseUser).uid}

\* the users rows as they are now refuse q's uid on forum f: not the owner,
\* not an admin
RefusedNow(q, f) == \A u \in RowsOfUid(q) : f.user_id # u.id /\ u.role # "admin"

\* C22: every request is authorized by the users table as it is when the
\* request is made, whatever earlier requests with the same token saw: a
\* request arrives with no Principal; the gate answers 401 'user not found'
\* exactly when no users row has the verified uid; and an update or delete
\* of an existing forum is refused with 403 exactly when the users row of
\* that uid, as stored now, is neither the owner nor an admin.
C22_AuthorizedByCurrentStore ==
    /\ [](\A r \in Slots :
            /\ reqs[r].pc = "gate" => reqs[r].user = Null /\ reqs[r].firebaseUser = Null
            /\ (Done(r) /\ reqs[r].firebaseUser # Null) =>
                  (RowsOfUid(reqs[r]) = {} <=>
                      (reqs[r].status = 401 /\ reqs[r].error = UserNotFound)))
    /\ [][\A r \in Slots :
            (reqs[r].pc = "handler" /\ reqs'[r].pc \in {"done", "write"}) =>
                \A f \in forums :
                    f.id = Number(Val(reqs'[r].params.id)) =>
                        /\ reqs'[r].status = 403 <=> RefusedNow(reqs'[r], f)
                        /\ reqs'[r].pc = "write" <=> ~RefusedNow(reqs'[r], f)]_vars

\* u2, an admin at startup and since demoted, is refused the deletion of
\* u1's forum
C22_Witness ==
    \E r \in Slots :
        /\ Done(r) /\ reqs[r].route = "DELETE /api/forums/:id" /\ reqs[r].status = 403
        /\ reqs[r].params.id = Some("1")
        /\ Val(reqs[r].firebaseUser).uid = "u2"
        /\ \E u \in users : u.firebase_uid = "u2" /\ u.role = "user"

\* the part of a text before its first '@'
UpToAt(t) ==
    LET ats == {k \in 1..Len(t) : t[k] = "@"}
    IN IF ats = {} THEN t ELSE SubSeq(t, 1, (CHOOSE k \in ats : \A j \in ats : k <= j) - 1)

\* the username a sync-user body asks for
AskedUsername(body) ==
    IF body.username # Null /\ Val(body.username) # <<>> THEN body.username
    ELSE IF body.email # Null /\ Val(body.email) # <<>> THEN Some(UpToAt(Val(body.email)))
    ELSE Null

C24_PutThenGetTarget ==
    \A r \in Slots :
        (Done(r) /\ reqs[r].route = "PUT /api/users/:id/daily-target" /\ reqs[r].status = 200) =>
            /\ reqs[r].data = (IF reqs[r].body.target = Null THEN Null ELSE reqs[r].body.target)
            /\ getUserDailyCalorieTarget(Val(reqs[r].params.id)) = reqs[r].data

C26_UpdateKeepsTheRest ==
    [][/\ \A f \in forums, g \in forums' : g.id = f.id => g.user_id = f.user_id
       /\ \A c \in forum_comments, d \in forum_comments' :
            d.id = c.id => (d.user_id = c.user_id /\ d.forum_id = c.forum_id)
       /\ \A r \in Slots :
            (Answers(r) /\ reqs'[r].route = "PUT /api/forums/:id" /\ reqs'[r].status = 200) =>
                LET body == reqs'[r].body
                    id == Number(Val(reqs'[r].params.id))
                IN /\ Cardinality(forums') = Cardinality(forums)
                   /\ \A f \in forums :
                        IF f.id # id THEN f \in forums'
                        ELSE [id |-> f.id, user_id |-> f.user_id,
                              title |-> IF body.title = Null THEN f.title ELSE Val(body.title),
                              content |-> IF body.content = Null THEN f.content
                                          ELSE Val(body.content)] \in forums']_vars

\* the admin u2 has given forum 1, which belongs to user 1, a new title and
\* no content: the forum has the new title, its old content and its owner
C26_Witness ==
    \E r \in Slots :
        /\ Done(r) /\ reqs[r].route = "PUT /api/forums/:id" /\ reqs[r].status = 200
        /\ reqs[r].params.id = Some("1") /\ Val(reqs[r].user).supabaseUserId = 2
        /\ reqs[r].body = [title |-> Some("b"), content |-> Null]
        /\ [id |-> 1, user_id |-> 1, title |-> "b", content |-> "a"] \in forums

\* the rows request q's write is aimed at: those of its path id in the
\* table of its route
TargetRows(q) ==
    IF q.route \in {"PUT /api/forums/:id", "DELETE /api/forums/:id"}
    THEN {f \in forums : f.id = Number(Val(q.params.id))}
    ELSE {c \in forum_comments : c.id = Number(Val(q.params.id))}

\* C27: when an update or delete of a forum or comment has passed its owner
\* read and the row is gone by the time of its write, that step changes no
\* table (the row is not written back, no other row is touched) and sends
\* the request's one response: an error for the update, 204 for the delete;
\* and no write step ever touches a row of another id or adds an id.
C27_WriteAfterDelete ==
    [][\A r \in Slots :
        (reqs[r].pc = "write" /\ reqs'[r] # reqs[r]) =>
            /\ reqs[r].status = 0 /\ reqs'[r].pc = "done" /\ reqs'[r].status # 0
            /\ \A f \in forums \ TargetRows(reqs[r]) : f \in forums'
            /\ \A c \in forum_comments \ TargetRows(reqs[r]) : c \in forum_comments'
            /\ {f.id : f \in forums'} \subseteq {f.id : f \in forums}
            /\ {c.id : c \in forum_comments'} \subseteq {c.id : c \in forum_comments}
            /\ TargetRows(reqs[r]) = {} =>
                 /\ forums' = forums /\ forum_comments' = forum_comments
                 /\ reqs[r].route \in {"PUT /api/forums/:id", "PUT /api/forums/comments/:id"}
                        => reqs'[r].status = 500
                 /\ reqs[r].route \in {"DELETE /api/forums/:id", "DELETE /api/forums/comments/:id"}
                        => reqs'[r].status = 204]_vars

\* an update of forum 1 that passed its owner read was answered 500 after
\* another request deleted forum 1, and forum 1 is still gone
C27_Witness ==
    \E r, d \in Slots :
        /\ Done(r) /\ reqs[r].route = "PUT /api/forums/:id" /\ reqs[r].status = 500
        /\ reqs[r].params.id = Some("1") /\ reqs[r].found # Null /\ reqs[r].writes = 1
        /\ Done(d) /\ reqs[d].route = "DELETE /api/forums/:id" /\ reqs[d].status = 204
        /\ reqs[d].params.id = Some("1")
        /\ \A f \in forums : f.id # 1

C29_AnsweredExactlyOnce ==
    /\ \A r \in Slots : (reqs[r].pc \notin {"idle", "off"}) ~> Done(r)
    /\ [](\A r \in Slots :
            /\ reqs[r].status # 0 <=> Done(r)
            /\ reqs[r].handlerRuns <= 1
            /\ reqs[r].gates <= 2)
    /\ [][\A r \in Slots :
            reqs[r].status # 0 => (reqs'[r] = reqs[r] \/ reqs'[r] = Idle)]_vars

\* a comment update went through the gate twice, ran its handler once and
\* was answered 200 after its one write
C29_Witness ==
    \E r \in Slots :
        /\ Done(r) /\ reqs[r].route = "PUT /api/forums/comments/:id" /\ reqs[r].status = 200
        /\ reqs[r].gates = 2 /\ reqs[r].handlerRuns = 1 /\ reqs[r].writes = 1

\* the positions of a request inside requireAuth
\* the handler step of request r on one of OwnerRoutes
OwnerHandler(r) ==
    \/ FoodLogsGet(r)
    \/ FoodLogsPost(r)
    \/ FoodLogsDelete(r)
    \/ FoodLogsMonth(r)
    \/ FoodLogsNutrition(r)
    \/ UsersGetTarget(r)
    \/ UsersPutTarget(r)

\* what a request asked and what it was answered
Exchange(q) ==
    <<q.route, q.params, q.query, q.body, q.status, q.data, q.error>>

\* requests a and b are admitted for different Principals, on the same route
\* of OwnerRoutes, and both are about to run their handler
Twins(a, b) ==
    /\ reqs[a].pc = "handler" /\ reqs[b].pc = "handler"
    /\ reqs[a].route = reqs[b].route
    /\ reqs[a].route \in OwnerRoutes
    /\ reqs[a].user # Null /\ reqs[b].user # Null
    /\ reqs[a].user # reqs[b].user

\* C30: on the food-log routes and the daily-target routes the response and
\* the change to the store do not depend on the admitted Principal: whenever
\* the handler of a request answers, a request of another Principal on the
\* same route, against the same store, can send the same inputs and then gets
\* the same response and leaves the same store
C30_PrincipalIndependent ==
    [][\A a, b \in Slots :
          (Twins(a, b) /\ OwnerHandler(a))
          => \E answered \in {reqs'[a]}, after \in {store'} :
                ENABLED (/\ OwnerHandler(b)
                         /\ Exchange(reqs'[b]) = Exchange(answered)
                         /\ store' = after)]_vars

\* C30: the admin of row 2 and the user of row 1 both asked for the food logs
\* of user 1, and both got the same rows
C30_Witness ==
    \E a, b \in Slots :
        /\ Done(a) /\ Done(b)
        /\ reqs[a].route = "GET /api/food-logs" /\ reqs[b].route = "GET /api/food-logs"
        /\ reqs[a].query = [userId |-> Some("1"), date |-> Some(1)]
        /\ reqs[b].query = reqs[a].query
        /\ RequesterId(reqs[a]) = Some(1) /\ RequesterId(reqs[b]) = Some(2)
        /\ reqs[a].status = 200 /\ reqs[b].status = 200
        /\ reqs[a].data = reqs[b].data
        /\ reqs[a].data # Some({})

GatePcs == {"gate", "verify", "lookup"}

\* C6: no step of the gate changes the store, whether it admits or rejects,
\* and a users row comes into existence only by the insert of sync-user.
C6_GateWritesNothing ==
    [][/\ \A r \in Slots :
            (reqs[r].pc \in GatePcs /\ reqs'[r] # reqs[r]) => store' = store
       /\ \A u \in users' :
            (~\E v \in users : v.id = u.id) =>
                \E r \in Slots :
                    /\ reqs[r].route = "POST /api/auth/sync-user"
                    /\ reqs[r].pc = "write" /\ reqs'[r].pc = "done"]_vars

C6_Witness ==
    /\ \E u \in users : u.firebase_uid = "u3"
    /\ \E r \in Slots :
        /\ reqs[r].pc = "handler" /\ reqs[r].gates > 0
        /\ Val(reqs[r].user).firebaseUid = "u3"

\* C7: every rejection by the gate is a 401 whose body tells at most a
\* missing credential from an invalid one: a token that fails verification
\* and a token that verifies but has no users row get the same response.
C7_UniformRejection ==
    \A r \in Slots :
        (Done(r) /\ Protected(reqs[r].route) /\ reqs[r].handlerRuns = 0) =>
            /\ reqs[r].status = 401
            /\ reqs[r].error \in {MissingTokenError, InvalidToken}
            /\ ~NoCredential(reqs[r].hdr) => reqs[r].error = InvalidToken

\* C8: without a credential (no header, no 'Bearer ' prefix, or nothing after
\* the prefix) the gate answers 401 at once: the verifier is not called and
\* the users table is not read.
C8_MissingCredentialImmediate ==
    \A r \in InFlight :
        (Protected(reqs[r].route) /\ NoCredential(reqs[r].hdr)) =>
            /\ reqs[r].pc \in {"gate", "done"}
            /\ reqs[r].verifyCalls = 0
            /\ reqs[r].userReads = 0
            /\ Done(r) => (reqs[r].status = 401 /\ reqs[r].error = MissingTokenError)

C8_Witness ==
    \E r \in Slots :
        /\ Done(r) /\ Protected(reqs[r].route)
        /\ reqs[r].hdr = Some(BearerPrefix)
        /\ reqs[r].status = 401 /\ reqs[r].verifyCalls = 0

\* C9: a protected route's handler runs only after the gate verified the
\* token and resolved the users row, and then the Principal carries the
\* verified uid and the id and role of the users row with that
\* firebase_uid.
C9_PrincipalFromStore ==
    \A r \in InFlight :
        (Protected(reqs[r].route) /\ (reqs[r].pc \in {"handler", "write"} \/ reqs[r].handlerRuns > 0)) =>
            /\ reqs[r].verifyCalls >= 1
            /\ reqs[r].userReads >= 1
            /\ reqs[r].token # Null
            /\ reqs[r].firebaseUser # Null
            /\ reqs[r].firebaseUser = VerifyIdToken(Val(reqs[r].token))
            /\ reqs[r].user # Null
            /\ LET p == Val(reqs[r].user)
                   uid == Val(reqs[r].firebaseUser).uid
                   rows == {u \in users : u.firebase_uid = uid}
               IN /\ p.firebaseUid = uid
                  /\ rows # {}
                  /\ \A u \in rows : u.id = p.supabaseUserId /\ u.role = p.role

C9_Witness ==
    \E r \in Slots :
        /\ reqs[r].pc = "handler" /\ Protected(reqs[r].route)
        /\ Val(reqs[r].firebaseUser).role = "admin"
        /\ Val(reqs[r].user).role = "user"

\* C10: POST /api/forums, once past cors() and express.json(), answers 401
\* without an Authorization header; 400,
\* creating no row, when admitted with title or content missing; and 201
\* when admitted with both, the created forum's user_id being the
\* Principal's local user id whatever user_id the body carries.
C10_CreateForum ==
    \A r \in Slots :
        (Done(r) /\ reqs[r].route = "POST /api/forums" /\ reqs[r].err = Null) =>
            /\ reqs[r].hdr = Null => reqs[r].status = 401
            /\ reqs[r].gates > 0 =>
                LET body == reqs[r].body
                    missing == FalsyStr(Get(body, "title")) \/ FalsyStr(Get(body, "content"))
                IN /\ missing =>
                        /\ reqs[r].status = 400
                        /\ reqs[r].writes = 0
                   /\ ~missing =>
                        /\ reqs[r].status = 201
                        /\ Val(reqs[r].data) \in forums
                        /\ Val(reqs[r].data).user_id = Val(reqs[r].user).supabaseUserId
                        /\ \E u \in users :
                              /\ u.firebase_uid = Val(reqs[r].firebaseUser).uid
                              /\ u.id = Val(reqs[r].data).user_id

C10_Witness ==
    \E r \in Slots :
        /\ Done(r) /\ reqs[r].route = "POST /api/forums" /\ reqs[r].status = 201
        /\ Get(reqs[r].body, "user_id") = Some(2)
        /\ Val(reqs[r].data).user_id = 1

====
